---- MODULE Spec2Model ----
(***************************************************************************)
(* Model of the dataset-creation pipeline (src/src/dataset_creator.py) and *)
(* of the retry loop around the Wavespeed generation call                  *)
(* (src/src/image_generator.py).                                           *)
(*                                                                         *)
(* The specifications are defined over the same variables and actions:     *)
(*   SpecInvoker        one call of ImageGenerator._make_wavespeed_request *)
(*                      with the full set of modelled responses;           *)
(*   Spec, SpecFair     one run of DatasetCreator.process_dataset from the *)
(*                      entry of its loop, over every combination of       *)
(*                      overrides (SpecFair adds the fairness of a         *)
(*                      sequential program);                               *)
(*   SpecJob            constructor, sample listing and run, over an       *)
(*                      output folder that may hold earlier files;         *)
(*   SpecRun            process_dataset from its first line, over          *)
(*                      reference folders of different sizes;              *)
(*   SpecInterruptible  a run the user may interrupt;                      *)
(*   SpecPayload        one call of ImageGenerator.generate_image;         *)
(*   SpecPrompt         one call of PromptGenerator.generate_prompt with   *)
(*                      the full set of modelled provider responses.       *)
(*                                                                         *)
(* Modelling assumptions (behaviour of libraries that are not in src/):    *)
(*  - session.post never raises HTTPError (no raise_for_status on it) and  *)
(*    the urllib3 Retry adapter does not re-send a POST on a status code   *)
(*    (POST is not in its allowed methods);                                *)
(*  - a 2xx body is a JSON object and its 'data' member, when present, is  *)
(*    an object;                                                           *)
(*  - bool(requests.Response) is Response.ok, so the response carried by   *)
(*    an HTTPError from raise_for_status is falsy;                         *)
(*  - sample names and the trigger name do not contain '.png', '.jpg' or   *)
(*    '.mp4', so str.replace only touches the extension of a path;         *)
(*  - the client of the text provider sends one request per call of        *)
(*    generate_content / chat.completions.create, and the text attribute   *)
(*    of a Gemini response raises when the response holds no text.         *)
(***************************************************************************)
EXTENDS Integers, Sequences, FiniteSets, TLC

VARIABLES
    \* ---- DatasetCreator.process_dataset ----
    pc,                \* position of the pipeline
    settings,          \* the Config fields the run never assigns
    config,            \* the Config fields the per-item override assigns
    baseline,          \* config as it was when the run started (history)
    n_samples,         \* len(sample_files)
    idx,               \* 1-based position of the for loop
    item,              \* locals of the current item
    generated_images,  \* self.generated_images
    caption_generator, \* self.caption_generator (its provider, or "None")
    cap,               \* locals of _generate_captions
    log,               \* what happened to each enumerated sample (history)
    ref_images_data,   \* the reference images read before the loop
    uses,              \* reads of reference images and calls of the stages (history)
    pg,                \* PromptGenerator: its requests and the latest call
    \* ---- ImageGenerator._make_wavespeed_request ----
    ipc,               \* position of the invocation
    call,              \* its parameters: url (the model it ends in), is_video, output_path
    payload,           \* its parameter payload (the JSON body of the POST)
    attempt,
    last_error,
    waits,             \* the wait_time of every time.sleep so far
    posts,             \* number of session.post calls so far
    gets,              \* number of requests.get calls so far
    response,          \* outcome of the latest session.post
    statuses,          \* HTTP status of every answered POST so far
    fetch_url,         \* the URL the pending requests.get fetches
    raised,            \* the exception that left the invocation
    \* ---- the disk ----
    files,             \* path -> content, for every file that exists
    now                \* datetime.now(), in seconds

pipeVars == <<pc, settings, config, baseline, n_samples, idx, item,
              generated_images, caption_generator, cap, log, ref_images_data, uses, pg>>
invVars  == <<ipc, call, payload, attempt, last_error, waits, posts, gets, response,
              statuses, fetch_url, raised>>
vars     == <<pipeVars, invVars, files, now>>

None == "None"


(***************************************************************************)
(* Bounds of the model.                                                    *)
(***************************************************************************)
MaxSamples == 2      \* samples enumerated in one run
MaxClock == 1        \* seconds the clock can advance during one run
MaxRefs == 3         \* reference images passed to one generate_image call
MaxWaitAttempt == 12 \* attempt numbers the backoff curve is evaluated at

Min(a, b) == IF a < b THEN a ELSE b

(***************************************************************************)
(* Paths and the disk.  A path is the directory, the parts its file name   *)
(* is built from, and the extension.                                       *)
(***************************************************************************)
MkPath(dir, name, tag, index, ext) ==
    [dir |-> dir, name |-> name, tag |-> tag, index |-> index,
     uniq |-> <<>>, resp |-> FALSE, ext |-> ext]

NoPath == MkPath("", "", "", 0, "")

Content(kind, by) == [kind |-> kind, by |-> by]

\* open(path, 'w'/'wb') followed by write: creates or overwrites
WriteFile(fs, path, content) ==
    [p \in (DOMAIN fs) \cup {path} |-> IF p = path THEN content ELSE fs[p]]

\* Path.unlink
RemoveFile(fs, path) == [p \in (DOMAIN fs) \ {path} |-> fs[p]]

\* output_path.replace('.png', '.' + ext).replace('.jpg', '.' + ext)
ReplaceImageExt(path, ext) ==
    IF path.ext \in {"png", "jpg"} THEN [path EXCEPT !.ext = ext] ELSE path

\* output_path.replace('.png', '_response.json').replace(<'.jpg' | '.mp4'>, '_response.json')
ResponseJsonPath(path, is_video) ==
    IF path.ext \in {"png", IF is_video THEN "mp4" ELSE "jpg"}
    THEN [path EXCEPT !.resp = TRUE, !.ext = "json"]
    ELSE path

(***************************************************************************)
(* Responses of the generation endpoint.  A JSON object is modelled by the *)
(* members the code reads; "absent" is a missing key, "empty" a falsy      *)
(* value ('' or null).                                                     *)
(***************************************************************************)
Urls == {"https://cdn/r.png", "https://cdn/r.webm"}

\* video_url.split('.')[-1].split('?')[0]
UrlExt(u) == IF u = "https://cdn/r.webm" THEN "webm" ELSE "png"

EmptyObj ==
    [status |-> "absent", error |-> "absent",
     image |-> "absent", image_url |-> "absent",
     video |-> "absent", video_url |-> "absent",
     outputs |-> "absent",
     image_base64 |-> "absent", video_base64 |-> "absent"]

Has(obj_field) == obj_field # "absent"                \* 'k' in result
Truthy(obj_field) == obj_field \notin {"absent", "empty", "emptylist"}

Flat(o) == [hasData |-> FALSE, top |-> o, data |-> EmptyObj]
Envelope(t, d) == [hasData |-> TRUE, top |-> t, data |-> d]

NoBody == Flat(EmptyObj)

\* objects that differ in where (and whether) they carry the artifact
ArtObjs ==
    {EmptyObj}
    \cup {[EmptyObj EXCEPT !.image = u] : u \in Urls}
    \cup {[EmptyObj EXCEPT !.video = u] : u \in Urls}
    \cup {[EmptyObj EXCEPT !.outputs = u] : u \in Urls}
    \cup {[EmptyObj EXCEPT !.image_url = "https://cdn/r.png"],
          [EmptyObj EXCEPT !.video_url = "https://cdn/r.webm"],
          [EmptyObj EXCEPT !.outputs = "emptylist"],
          [EmptyObj EXCEPT !.image_base64 = "valid"],
          [EmptyObj EXCEPT !.image_base64 = "invalid"],
          [EmptyObj EXCEPT !.video_base64 = "valid"],
          [EmptyObj EXCEPT !.image = "empty", !.image_url = "https://cdn/r.png"],
          [EmptyObj EXCEPT !.video = "empty", !.video_base64 = "valid"],
          [EmptyObj EXCEPT !.image = "https://cdn/r.png", !.image_base64 = "valid"],
          [EmptyObj EXCEPT !.outputs = "emptylist", !.image_base64 = "valid"]}

GoodObj == [EmptyObj EXCEPT !.outputs = "https://cdn/r.png", !.status = "completed"]

\* objects that differ in the status and error they report
ErrObjs ==
    {[GoodObj EXCEPT !.status = s, !.error = e] :
        s \in {"absent", "failed", "completed"},
        e \in {"absent", "empty", "moderation", "overload"}}

EnvelopeTops ==
    {EmptyObj, [EmptyObj EXCEPT !.error = "moderation"],
     [EmptyObj EXCEPT !.status = "failed"]}

Bodies ==
    {Flat(o) : o \in ArtObjs \cup ErrObjs}
    \cup {Envelope(t, d) : t \in EnvelopeTops, d \in ArtObjs \cup ErrObjs}

\* the bodies a pipeline run draws from: a clean result per URL
RunBodies == {Flat([GoodObj EXCEPT !.outputs = u]) : u \in Urls}

HttpResponse(st, b) == [kind |-> "http", status |-> st, body |-> b]
PostTimeout == [kind |-> "timeout", status |-> 0, body |-> NoBody]
PostNetErr  == [kind |-> "neterr", status |-> 0, body |-> NoBody]
NoResponse  == [kind |-> "none", status |-> 0, body |-> NoBody]

ErrorStatuses == {400, 404, 429, 499, 500, 503}
RunErrorStatuses == {503}

Responses(standalone) ==
    {PostTimeout}
    \cup (IF standalone THEN {PostNetErr} ELSE {})
    \cup {HttpResponse(st, NoBody) :
            st \in IF standalone THEN ErrorStatuses ELSE RunErrorStatuses}
    \cup {HttpResponse(200, b) : b \in IF standalone THEN Bodies ELSE RunBodies}
    \cup (IF standalone THEN {HttpResponse(201, Flat(GoodObj))} ELSE {})

(***************************************************************************)
(* ImageGenerator._make_wavespeed_request                                  *)
(***************************************************************************)
\* mutant: one attempt more than the code allows
max_error_attempts_plus_one == 3 + 1

max_error_attempts == 3

\* mutant: the wait grows with the number of the attempt it precedes
wait_time_OfAttempt(att) == Min(att * 3, 30)

\* wait_time = min((attempt - 1) * 3, 30)
wait_time(att) == Min((att - 1) * 3, 30)

Exc(type, key, detail, at) == [type |-> type, key |-> key, detail |-> detail, at |-> at]
NoExc == Exc(None, "", "", 0)

\* last_error: None, or the detail it was assigned and the attempt that assigned it
LastError(detail, at) == [detail |-> detail, at |-> at]
NoLastError == LastError(None, 0)

\* What one pass through the try statement leaves behind: where the
\* invocation goes next, the exception it raises, last_error, the URL to
\* fetch, and the disk.
Outcome(next, exc, le, url, fs) ==
    [next |-> next, exc |-> exc, last_error |-> le, url |-> url, fs |-> fs]

\* mutant: the handler continues on the last attempt too
ExceptRuntimeOrValueError_AlwaysContinues(exc, att, le, fs) ==
    Outcome("loop", NoExc, le, "", fs)

\* except (RuntimeError, ValueError): re-raise on the last attempt, else continue
ExceptRuntimeOrValueError(exc, att, le, fs) ==
    IF att >= max_error_attempts
    THEN Outcome("raised", exc, le, "", fs)
    ELSE Outcome("loop", NoExc, le, "", fs)

\* mutant: the error raised on the last attempt carries the detail kept
\* from the attempt before
RetryOrRaise_KeptDetail(key, detail, att, le, fs) ==
    IF att < max_error_attempts
    THEN Outcome("loop", NoExc, LastError(detail, att), "", fs)
    ELSE ExceptRuntimeOrValueError(Exc("RuntimeError", key, le.detail, le.at), att, le, fs)

\* an error the code classifies as retryable: continue while attempts remain,
\* else raise RuntimeError inside the try body
RetryOrRaise(key, detail, att, le, fs) ==
    IF att < max_error_attempts
    THEN Outcome("loop", NoExc, LastError(detail, att), "", fs)
    ELSE ExceptRuntimeOrValueError(Exc("RuntimeError", key, detail, att), att, le, fs)

\* data.get('status') == 'failed' or data.get('error')
ReportsFailure(obj) == obj.status = "failed" \/ Truthy(obj.error)

\* data.get('error', i18n.t('unknown_error'))
ErrorMsg(obj) == IF Has(obj.error) THEN obj.error ELSE "unknown_error"

\* result after `if 'data' in result: ... result = data`
Unwrapped(body) == IF body.hasData THEN body.data ELSE body.top

\* the first recognized URL member, in the order of the if/elif chain
VideoUrl(result) ==
    IF Has(result.video) THEN result.video
    ELSE IF Has(result.video_url) THEN result.video_url
    ELSE IF Truthy(result.outputs) THEN result.outputs
    ELSE None

ImageUrl(result) ==
    IF Has(result.image) THEN result.image
    ELSE IF Has(result.image_url) THEN result.image_url
    ELSE IF Truthy(result.outputs) THEN result.outputs
    ELSE None

UrlTruthy(u) == u # None /\ Truthy(u)

\* base64.b64decode raises binascii.Error, a ValueError, on malformed input
WriteBase64(b64, path, att, le, fs, by) ==
    IF b64 = "valid"
    THEN Outcome("returned", NoExc, le, "", WriteFile(fs, path, Content("media", by)))
    ELSE ExceptRuntimeOrValueError(Exc("ValueError", "b64decode", "", att), att, le, fs)

\* the else branch: dump the body next to the output path, raise ValueError
UnexpectedFormat(is_video, path, att, le, fs, by) ==
    ExceptRuntimeOrValueError(
        Exc("ValueError", "unexpected_format", "", att), att, le,
        WriteFile(fs, ResponseJsonPath(path, is_video), Content("json", by)))

\* lines 234-293 up to the requests.get call
ResolveResult(result, is_video, path, att, le, fs, by) ==
    IF is_video
    THEN IF UrlTruthy(VideoUrl(result))
         THEN Outcome("get", NoExc, le, VideoUrl(result), fs)
         ELSE IF Has(result.video_base64)
         THEN WriteBase64(result.video_base64, ReplaceImageExt(path, "mp4"), att, le, fs, by)
         ELSE UnexpectedFormat(is_video, path, att, le, fs, by)
    ELSE IF UrlTruthy(ImageUrl(result))
         THEN Outcome("get", NoExc, le, ImageUrl(result), fs)
         ELSE IF Has(result.image_base64)
         THEN WriteBase64(result.image_base64, path, att, le, fs, by)
         ELSE UnexpectedFormat(is_video, path, att, le, fs, by)

\* mutant: only the top level of the body is inspected, the envelope is not
HandleBody_TopLevelOnly(body, is_video, path, att, le, fs, by) ==
    IF ReportsFailure(body.top)
    THEN RetryOrRaise("wavespeed_api_error", ErrorMsg(body.top), att, le, fs)
    ELSE ResolveResult(Unwrapped(body), is_video, path, att, le, fs, by)

\* lines 198-232: the two checks of a parsed 2xx body
HandleBody(body, is_video, path, att, le, fs, by) ==
    IF body.hasData /\ ReportsFailure(body.data)
    THEN RetryOrRaise("wavespeed_api_error", ErrorMsg(body.data), att, le, fs)
    ELSE IF ReportsFailure(Unwrapped(body))
    THEN RetryOrRaise("wavespeed_api_error", ErrorMsg(Unwrapped(body)), att, le, fs)
    ELSE ResolveResult(Unwrapped(body), is_video, path, att, le, fs, by)

\* f"HTTP {response.status_code} Server Error" and its client counterpart
StatusErrorMsg(status) ==
    "HTTP " \o ToString(status) \o (IF status >= 500 THEN " Server Error" ELSE " Client Error")

\* lines 175-196: status >= 500 is retried, status >= 400 raises RuntimeError
\* inside the try body
HandleStatus(r, is_video, path, att, le, fs, by) ==
    IF r.status >= 500
    THEN RetryOrRaise("wavespeed_request_error", StatusErrorMsg(r.status), att, le, fs)
    ELSE IF r.status >= 400
    THEN ExceptRuntimeOrValueError(
             Exc("RuntimeError", "wavespeed_request_error", StatusErrorMsg(r.status), att),
             att, le, fs)
    ELSE HandleBody(r.body, is_video, path, att, le, fs, by)

\* mutant: a timeout is retried like a server error
ExceptTimeout_Retried(att, fs) ==
    IF att < max_error_attempts
    THEN Outcome("loop", NoExc, LastError("Timeout", att), "", fs)
    ELSE Outcome("raised", Exc("RuntimeError", "wavespeed_timeout_error", "", att),
                 LastError("Timeout", att), "", fs)

\* except Timeout / except RequestException: raise RuntimeError from the handler
ExceptTimeout(att, fs) ==
    Outcome("raised", Exc("RuntimeError", "wavespeed_timeout_error", "", att),
            LastError("Timeout", att), "", fs)

ExceptRequestException(att, fs) ==
    Outcome("raised", Exc("RuntimeError", "wavespeed_request_error", "RequestException", att),
            LastError("RequestException", att), "", fs)

\* mutant: the response of an HTTPError counts as present
ResponseTruthy_Always(st) == TRUE

\* bool(e.response) is Response.ok
ResponseTruthy(st) == st < 400

\* except HTTPError (raised by raise_for_status of the result fetch)
ExceptHTTPError(st, att, fs) ==
    LET status_code == IF ResponseTruthy(st) THEN st ELSE 0 IN
    IF status_code # 0 /\ 500 <= status_code /\ status_code < 600
    THEN IF att < max_error_attempts
         THEN Outcome("loop", NoExc, LastError("HTTPError", att), "", fs)
         ELSE Outcome("raised", Exc("RuntimeError", "wavespeed_request_error", "HTTPError", att),
                      LastError("HTTPError", att), "", fs)
    ELSE Outcome("raised", Exc("RuntimeError", "wavespeed_request_error", "HTTPError", att),
                 LastError("HTTPError", att), "", fs)

\* one pass of the try statement from session.post on
PostOutcome(r, is_video, path, att, le, fs, by) ==
    IF r.kind = "timeout" THEN ExceptTimeout(att, fs)
    ELSE IF r.kind = "neterr" THEN ExceptRequestException(att, fs)
    ELSE HandleStatus(r, is_video, path, att, le, fs, by)

FetchResults(standalone) ==
    IF standalone THEN {"ok", "timeout", "neterr", "404", "503"} ELSE {"ok"}

FetchStatus(f) == IF f = "404" THEN 404 ELSE 503

\* where the fetched bytes are written
FetchedPath(url, is_video, path) ==
    IF is_video THEN ReplaceImageExt(path, UrlExt(url)) ELSE path

\* the rest of the try statement from requests.get on
FetchOutcome(f, url, is_video, path, att, le, fs, by) ==
    IF f = "ok"
    THEN Outcome("returned", NoExc, le, "",
                 WriteFile(fs, FetchedPath(url, is_video, path), Content("media", by)))
    ELSE IF f = "timeout" THEN ExceptTimeout(att, fs)
    ELSE IF f = "neterr" THEN ExceptRequestException(att, fs)
    ELSE ExceptHTTPError(FetchStatus(f), att, fs)

Standalone == pc = "standalone"

By == IF Standalone THEN 0 ELSE idx

\* mutant: the retry is issued without the backoff sleep
LoopTest_NoSleep ==
    /\ ipc = "loop"
    /\ IF attempt < max_error_attempts
       THEN /\ attempt' = attempt + 1
            /\ ipc' = "post"
            /\ UNCHANGED raised
       ELSE /\ ipc' = "raised"
            /\ raised' = Exc("RuntimeError", "all_attempts_failed",
                             last_error.detail, last_error.at)
            /\ UNCHANGED attempt
    /\ UNCHANGED <<pipeVars, call, payload, last_error, waits, posts, gets,
                   response, statuses, fetch_url, files, now>>

\* while attempt < max_error_attempts: attempt += 1; after the loop the
\* 'all attempts failed' error is raised
LoopTest ==
    /\ ipc = "loop"
    /\ IF attempt < max_error_attempts
       THEN /\ attempt' = attempt + 1
            /\ ipc' = IF attempt + 1 > 1 THEN "sleep" ELSE "post"
            /\ UNCHANGED raised
       ELSE /\ ipc' = "raised"
            /\ raised' = Exc("RuntimeError", "all_attempts_failed",
                             last_error.detail, last_error.at)
            /\ UNCHANGED attempt
    /\ UNCHANGED <<pipeVars, call, payload, last_error, waits, posts, gets,
                   response, statuses, fetch_url, files, now>>

\* time.sleep(wait_time)
Sleep ==
    /\ ipc = "sleep"
    /\ waits' = Append(waits, wait_time(attempt))
    /\ ipc' = "post"
    /\ UNCHANGED <<pipeVars, call, payload, attempt, last_error, posts, gets,
                   response, statuses, fetch_url, raised, files, now>>

ApplyOutcome(o) ==
    /\ ipc' = o.next
    /\ raised' = o.exc
    /\ last_error' = o.last_error
    /\ fetch_url' = o.url
    /\ files' = o.fs

\* session.post(...) and what the try statement does with its outcome
Post ==
    /\ ipc = "post"
    /\ \E r \in Responses(Standalone) :
          /\ response' = r
          /\ statuses' = IF r.kind = "http" THEN Append(statuses, r.status) ELSE statuses
          /\ ApplyOutcome(PostOutcome(r, call.is_video, call.output_path, attempt,
                                      last_error, files, By))
    /\ posts' = posts + 1
    /\ UNCHANGED <<pipeVars, call, payload, attempt, waits, gets, now>>

\* requests.get(url) and what the try statement does with its outcome
Fetch ==
    /\ ipc = "get"
    /\ \E f \in FetchResults(Standalone) :
          ApplyOutcome(FetchOutcome(f, fetch_url, call.is_video, call.output_path,
                                    attempt, last_error, files, By))
    /\ gets' = gets + 1
    /\ UNCHANGED <<pipeVars, call, payload, attempt, waits, posts, response,
                   statuses, now>>

NextInvoker == LoopTest \/ Sleep \/ Post \/ Fetch

\* the state in which _make_wavespeed_request is entered
InvokerEntry(model, is_video, path, pl) ==
    /\ ipc = "loop"
    /\ call = [url |-> model, is_video |-> is_video, output_path |-> path]
    /\ payload = pl
    /\ attempt = 0
    /\ last_error = NoLastError
    /\ waits = <<>>
    /\ posts = 0
    /\ gets = 0
    /\ response = NoResponse
    /\ statuses = <<>>
    /\ fetch_url = ""
    /\ raised = NoExc

(***************************************************************************)
(* Configuration.  `settings` holds the Config fields a run only reads,    *)
(* `config` the eight fields the per-item override assigns and restores.   *)
(***************************************************************************)
WavespeedModels ==
    {"google/nano-banana-pro/edit", "wan-2.5/image-to-video", "acme/Video-pro"}

\* the spelling of a model identifier
Chars(m) ==
    CASE m = "google/nano-banana-pro/edit" -> <<"g", "o", "o", "g", "l", "e", "/", "n", "a", "n", "o", "-", "b", "a", "n", "a", "n", "a", "-", "p", "r", "o", "/", "e", "d", "i", "t">>
      [] m = "wan-2.5/image-to-video" -> <<"w", "a", "n", "-", "2", ".", "5", "/", "i", "m", "a", "g", "e", "-", "t", "o", "-", "v", "i", "d", "e", "o">>
      [] m = "acme/Video-pro" -> <<"a", "c", "m", "e", "/", "V", "i", "d", "e", "o", "-", "p", "r", "o">>
      [] m = "bytedance/seedream-v4/edit" -> <<"b", "y", "t", "e", "d", "a", "n", "c", "e", "/", "s", "e", "e", "d", "r", "e", "a", "m", "-", "v", "4", "/", "e", "d", "i", "t">>
      [] m = "bytedance/SeeDream-v4/edit" -> <<"b", "y", "t", "e", "d", "a", "n", "c", "e", "/", "S", "e", "e", "D", "r", "e", "a", "m", "-", "v", "4", "/", "e", "d", "i", "t">>
      [] OTHER -> <<>>

\* sub in s
IsSubstring(sub, s) ==
    \E i \in 1..(Len(s) - Len(sub) + 1) : SubSeq(s, i, i + Len(sub) - 1) = sub

\* s.lower(), for the letters the identifiers use
Lower(s) ==
    [i \in DOMAIN s |-> CASE s[i] = "V" -> "v"
                          [] s[i] = "S" -> "s"
                          [] s[i] = "D" -> "d"
                          [] OTHER -> s[i]]

\* dataset_creator: 'image-to-video' in m or '/video' in m or 'video' in m.lower()
PipelineIsVideo(m) ==
    \/ IsSubstring(<<"i", "m", "a", "g", "e", "-", "t", "o", "-", "v", "i", "d", "e", "o">>, Chars(m))
    \/ IsSubstring(<<"/", "v", "i", "d", "e", "o">>, Chars(m))
    \/ IsSubstring(<<"v", "i", "d", "e", "o">>, Lower(Chars(m)))

\* image_generator: 'image-to-video' in model or '/video' in model
GeneratorIsVideo(m) ==
    \/ IsSubstring(<<"i", "m", "a", "g", "e", "-", "t", "o", "-", "v", "i", "d", "e", "o">>, Chars(m))
    \/ IsSubstring(<<"/", "v", "i", "d", "e", "o">>, Chars(m))

\* 'seedream' in model.lower()
IsSeedream(m) ==
    IsSubstring(<<"s", "e", "e", "d", "r", "e", "a", "m">>, Lower(Chars(m)))

\* the values of Config.wavespeed_resolution: the three tiers, a value the
\* map does not know, the empty string and None
ResolutionTiers == {"1k", "2k", "4k", "8k", "", None}

\* resolution_map.get(resolution, '1920*1920')
SeedreamSize(resolution) ==
    CASE resolution = "1k" -> "1920*1920"
      [] resolution = "2k" -> "2048*2048"
      [] resolution = "4k" -> "4096*4096"
      [] OTHER -> "1920*1920"

\* truth value of a str-or-None Config field
NonEmpty(v) == v # "" /\ v # None

\* a request payload: the keys it has and the values of the keys the model
\* follows ("absent" / <<>> for a key it does not have)
Payload(keys, images, image, prompt, size, resolution, output_format, sync) ==
    [keys |-> keys, images |-> images, image |-> image, prompt |-> prompt,
     size |-> size, resolution |-> resolution, output_format |-> output_format,
     enable_sync_mode |-> sync]

NoPayload == Payload({}, <<>>, "absent", "", "absent", "absent", "absent", FALSE)

\* ref_images[:2]
FirstTwo(ref_images) == SubSeq(ref_images, 1, Min(2, Len(ref_images)))

\* mutant: every supplied reference image is sent
ImagesBase64_Uncut(ref_images, sample_image) == ref_images \o <<sample_image>>

\* lines 65-68: images_base64
ImagesBase64(ref_images, sample_image) == FirstTwo(ref_images) \o <<sample_image>>

\* mutant: the tier is sent as the size
SizeOrResolution_TierAsSize(model, resolution) ==
    IF IsSeedream(model)
    THEN [keys |-> {"size"}, size |-> resolution, resolution |-> "absent"]
    ELSE IF NonEmpty(resolution)
    THEN [keys |-> {"resolution"}, size |-> "absent", resolution |-> resolution]
    ELSE [keys |-> {}, size |-> "absent", resolution |-> "absent"]

\* lines 80-100: Seedream models get a size, the others the resolution
SizeOrResolution(model, resolution) ==
    IF IsSeedream(model)
    THEN [keys |-> {"size"}, size |-> SeedreamSize(resolution), resolution |-> "absent"]
    ELSE IF NonEmpty(resolution)
    THEN [keys |-> {"resolution"}, size |-> "absent", resolution |-> resolution]
    ELSE [keys |-> {}, size |-> "absent", resolution |-> "absent"]

\* the payload _generate_image_edit_wavespeed builds
EditPayload(ref_images, sample_image, prompt, model, resolution, output_format) ==
    LET sr == SizeOrResolution(model, resolution) IN
    Payload({"enable_base64_output", "enable_sync_mode", "images", "prompt"}
                \cup sr.keys
                \cup (IF NonEmpty(output_format) THEN {"output_format"} ELSE {}),
            ImagesBase64(ref_images, sample_image), "absent", prompt,
            sr.size, sr.resolution,
            IF NonEmpty(output_format) THEN output_format ELSE "absent", TRUE)

\* the payload _generate_video_wavespeed builds
VideoPayload(sample_image, prompt) ==
    Payload({"enable_base64_output", "enable_sync_mode", "image", "prompt"},
            <<>>, sample_image, prompt, "absent", "absent", "absent", FALSE)

\* _generate_with_wavespeed: the payload passed to _make_wavespeed_request
WavespeedPayload(ref_images, sample_image, prompt, model, resolution, output_format) ==
    IF GeneratorIsVideo(model)
    THEN VideoPayload(sample_image, prompt)
    ELSE EditPayload(ref_images, sample_image, prompt, model, resolution, output_format)

\* the Config fields that are snapshot, overridden and restored per item
Profile(ai, gem, oai, grk, wav, capp, ocap, gcap) ==
    [ai_provider |-> ai, gemini_model |-> gem, openai_model |-> oai,
     grok_model |-> grk, wavespeed_model |-> wav, caption_provider |-> capp,
     openai_caption_model |-> ocap, grok_caption_model |-> gcap]

BaseProfile(wav) ==
    Profile("gemini", "gemini-base", "gpt-base", "grok-base", wav,
            "openai", "gpt-cap-base", "grok-cap-base")

NoProfile == Profile("", "", "", "", "", "", "", "")

\* the override of one content type: provider, its models, generation model,
\* caption provider and its models (None / '' when not set)
Override(ai, wav, capp, tag) ==
    [ai_provider |-> ai,
     gemini_model |-> "gemini-" \o tag, openai_model |-> "gpt-" \o tag,
     grok_model |-> "grok-" \o tag,
     wavespeed_model |-> wav,
     caption_provider |-> capp,
     openai_caption_model |-> "gpt-cap-" \o tag,
     grok_caption_model |-> "grok-cap-" \o tag]

NoOverride == Override(None, "", "", "")

Settings(nsfw_enabled, captions, grok_key, ov_nsfw, ov_normal) ==
    [nsfw_enabled |-> nsfw_enabled,
     generate_captions |-> captions,
     trigger_name |-> IF captions THEN "Aria" ELSE "",
     gemini_api_key |-> TRUE, openai_api_key |-> TRUE, grok_api_key |-> grok_key,
     image_provider |-> "wavespeed", wavespeed_api_key |-> TRUE,
     wavespeed_resolution |-> "1k", wavespeed_output_format |-> "png",
     prompt_template |-> "bulk", limit_sample_images |-> 10,
     ref_folder |-> <<"ref1", "ref2">>, limit_ref_images |-> 10,
     nsfw |-> ov_nsfw, normal |-> ov_normal]

NoSettings == Settings(FALSE, FALSE, FALSE, NoOverride, NoOverride)

\* lines 200-247: the settings of the item's content type are applied
ApplyOverride(cfg, ov) ==
    LET c1 == IF ov.ai_provider # None
              THEN [cfg EXCEPT
                      !.ai_provider = ov.ai_provider,
                      !.gemini_model = IF ov.ai_provider = "gemini" THEN ov.gemini_model ELSE @,
                      !.openai_model = IF ov.ai_provider = "openai" THEN ov.openai_model ELSE @,
                      !.grok_model = IF ov.ai_provider = "grok" THEN ov.grok_model ELSE @]
              ELSE cfg
        c2 == IF ov.wavespeed_model # ""
              THEN [c1 EXCEPT !.wavespeed_model = ov.wavespeed_model]
              ELSE c1
    IN  IF ov.caption_provider # ""
        THEN [c2 EXCEPT
                !.caption_provider = ov.caption_provider,
                !.openai_caption_model =
                    IF ov.caption_provider = "openai" THEN ov.openai_caption_model ELSE @,
                !.grok_caption_model =
                    IF ov.caption_provider = "grok" THEN ov.grok_caption_model ELSE @]
        ELSE c2

Overridden(cfg, st, content_type) ==
    IF content_type = "nsfw" THEN ApplyOverride(cfg, st.nsfw)
    ELSE IF content_type = "normal" THEN ApplyOverride(cfg, st.normal)
    ELSE cfg

\* PromptGenerator.setup_provider returns (TRUE) or raises (FALSE)
PromptProviderReady(cfg, st) ==
    \/ cfg.ai_provider = "gemini" /\ st.gemini_api_key
    \/ cfg.ai_provider = "openai" /\ st.openai_api_key
    \/ cfg.ai_provider = "grok" /\ st.grok_api_key

\* CaptionGenerator(config): the provider of the client it builds, or None
\* when the constructor raises
NewCaptionGenerator(cfg, st) ==
    IF cfg.caption_provider = "grok"
    THEN IF st.grok_api_key THEN "grok" ELSE None
    ELSE IF st.openai_api_key THEN "openai" ELSE None

\* lines 256-262: the caption generator is rebuilt, the old one kept on failure
RefreshedCaptionGenerator(old, cfg, st) ==
    IF old = None THEN None
    ELSE IF NewCaptionGenerator(cfg, st) # None THEN NewCaptionGenerator(cfg, st)
    ELSE old

CaptionsOn(st) == st.generate_captions /\ st.trigger_name # ""

(***************************************************************************)
(* PromptGenerator.  A response of the text provider is modelled by what   *)
(* the code reads of it: whether the call raised, whether choices is       *)
(* non-empty, the finish_reason of the first choice and its content.       *)
(* Text is "" (empty), " " (white space only), "text", or " text ".        *)
(***************************************************************************)
PromptResponse(raises, choices, finish_reason, content) ==
    [raises |-> raises, choices |-> choices, finish_reason |-> finish_reason,
     content |-> content]

PromptRaises == PromptResponse(TRUE, 0, None, None)
NoPromptResponse == PromptResponse(FALSE, 0, None, "unset")

FinishReasons == {"stop", "length", None}
PromptContents == {None, "", " ", "text", " text "}

\* every answer of the provider library to one request
PromptResponses ==
    {PromptRaises, PromptResponse(FALSE, 0, None, None)}
    \cup {PromptResponse(FALSE, 1, f, c) : f \in FinishReasons, c \in PromptContents}

\* the answers used inside a run: the call raises, returns a text or returns
\* an empty text
RunPromptResponses ==
    {PromptRaises, PromptResponse(FALSE, 1, "stop", "text"),
     PromptResponse(FALSE, 1, "stop", "")}

\* str.strip()
Strip(str) ==
    IF str \in {"", " "} THEN "" ELSE IF str = " text " THEN "text" ELSE str

\* what a provider function does with the one response it gets: it raises,
\* or returns a string after printing the diagnostics
Generated(has_raised, returned, diagnostics) ==
    [raised |-> has_raised, returned |-> returned, diagnostics |-> diagnostics]

\* mutant: a response without choices raises
generate_with_openai_Strict(r) ==
    IF r.raises \/ r.choices = 0 THEN Generated(TRUE, None, {})
    ELSE LET truncated == IF r.finish_reason = "length" THEN {"truncated"} ELSE {} IN
         IF r.content \notin {None, ""}
         THEN IF Strip(r.content) # ""
              THEN Generated(FALSE, Strip(r.content), truncated)
              ELSE Generated(FALSE, "", truncated \cup {"empty_string"})
         ELSE Generated(FALSE, "", truncated \cup {"none_content"})

\* _generate_with_openai, lines 290-324
generate_with_openai(r) ==
    IF r.raises THEN Generated(TRUE, None, {})
    ELSE IF r.choices = 0 THEN Generated(FALSE, "", {"no_choices"})
    ELSE LET truncated == IF r.finish_reason = "length" THEN {"truncated"} ELSE {} IN
         IF r.content \notin {None, ""}
         THEN IF Strip(r.content) # ""
              THEN Generated(FALSE, Strip(r.content), truncated)
              ELSE Generated(FALSE, "", truncated \cup {"empty_string"})
         ELSE Generated(FALSE, "", truncated \cup {"none_content"})

\* mutant: a response without text raises
generate_with_grok_RaisesOnEmpty(r) ==
    IF r.raises THEN Generated(TRUE, None, {})
    ELSE IF r.choices = 0 THEN Generated(TRUE, None, {"no_choices"})
    ELSE LET truncated == IF r.finish_reason = "length" THEN {"truncated"} ELSE {} IN
         IF r.content \notin {None, ""} /\ Strip(r.content) # ""
         THEN Generated(FALSE, Strip(r.content), truncated)
         ELSE Generated(TRUE, None, truncated)

\* _generate_with_grok, lines 367-401
generate_with_grok(r) ==
    IF r.raises THEN Generated(TRUE, None, {})
    ELSE IF r.choices = 0 THEN Generated(FALSE, "", {"no_choices"})
    ELSE LET truncated == IF r.finish_reason = "length" THEN {"truncated"} ELSE {} IN
         IF r.content \notin {None, ""}
         THEN IF Strip(r.content) # ""
              THEN Generated(FALSE, Strip(r.content), truncated)
              ELSE Generated(FALSE, "", truncated \cup {"empty_string"})
         ELSE Generated(FALSE, "", truncated \cup {"none_content"})

\* _generate_with_gemini, lines 244-245: response.text raises when the
\* response holds no text part
generate_with_gemini(r) ==
    IF r.raises \/ r.choices = 0 \/ r.content = None THEN Generated(TRUE, None, {})
    ELSE Generated(FALSE, Strip(r.content), {})

\* the images sent with the request: ref_images[:2] and the sample
PromptImages(ref_images, sample_image) == FirstTwo(ref_images) \o <<sample_image>>

\* the state of the prompt generator: the requests it has sent to the text
\* provider, and of its latest generate_prompt call the provider, the images
\* sent, the response, what the provider function did with it, and the
\* prompt returned (None when the call raised)
PromptCall(requests, provider, images, resp, generated, final_prompt) ==
    [requests |-> requests, provider |-> provider, images |-> images, response |-> resp,
     generated |-> generated, final_prompt |-> final_prompt]

NoPromptCall == PromptCall(0, None, <<>>, NoPromptResponse, Generated(FALSE, None, {}), None)

\* mutant: a call that raised is sent once more
generate_prompt_Resend(old, provider, ref_images, sample_image, r) ==
    LET generated == IF provider = "gemini" THEN generate_with_gemini(r)
                     ELSE IF provider = "openai" THEN generate_with_openai(r)
                     ELSE generate_with_grok(r)
    IN  IF provider \notin {"gemini", "openai", "grok"}
        THEN PromptCall(old.requests, provider, <<>>, NoPromptResponse,
                        Generated(TRUE, None, {}), None)
        ELSE PromptCall(old.requests + (IF generated.raised THEN 2 ELSE 1), provider,
                        PromptImages(ref_images, sample_image), r, generated,
                        IF generated.raised THEN None
                        ELSE <<"face_instruction", generated.returned, "reminder">>)

\* generate_prompt, lines 59-108: one call of the provider function, which
\* sends one request; the text it returns is put between the instruction
\* and the reminder
generate_prompt(old, provider, ref_images, sample_image, r) ==
    LET generated == IF provider = "gemini" THEN generate_with_gemini(r)
                     ELSE IF provider = "openai" THEN generate_with_openai(r)
                     ELSE generate_with_grok(r)
    IN  IF provider \notin {"gemini", "openai", "grok"}
        THEN PromptCall(old.requests, provider, <<>>, NoPromptResponse,
                        Generated(TRUE, None, {}), None)
        ELSE PromptCall(old.requests + 1, provider,
                        PromptImages(ref_images, sample_image), r, generated,
                        IF generated.raised THEN None
                        ELSE <<"face_instruction", generated.returned, "reminder">>)

(***************************************************************************)
(* FileManager.list_image_files and the reference images of a run          *)
(***************************************************************************)
\* the loop of list_image_files over `remaining` more image files, `listed`
\* of them appended so far: append, then break when len(files) >= limit
RECURSIVE ListLoop(_, _, _)
ListLoop(remaining, listed, limit) ==
    IF remaining = 0 THEN listed
    ELSE IF listed + 1 >= limit THEN listed + 1
    ELSE ListLoop(remaining - 1, listed + 1, limit)

\* len(list_image_files(folder, limit)) for a folder tree holding `available`
\* image files
ListImageFiles(available, limit) == ListLoop(available, 0, limit)

\* process_dataset, lines 79-83: the image files of the reference folder
\* that are listed, in listing order
RefFiles(st) ==
    SubSeq(st.ref_folder, 1, ListImageFiles(Len(st.ref_folder), st.limit_ref_images))

\* mutant: every listed reference file is read
ReadReferences_All(st) == RefFiles(st)

\* lines 161-166: the listed reference files that are read, ref_files[:2]
ReadReferences(st) == FirstTwo(RefFiles(st))

\* the reads of reference images and the calls of the two stages so far
Uses(ref_reads, prompt_calls, prompt_refs, generations, generate_refs) ==
    [ref_reads |-> ref_reads, prompt_calls |-> prompt_calls, prompt_refs |-> prompt_refs,
     generations |-> generations, generate_refs |-> generate_refs]

NoUses == Uses(0, 0, <<>>, 0, <<>>)

(***************************************************************************)
(* DatasetCreator                                                          *)
(***************************************************************************)
SampleNames == {"a", "b"}

\* what the lister returns for a file: its content_type (from the parent
\* folder) and what its path spells when the lister left content_type None
SampleFile(name, content_type, path_has) ==
    [name |-> name, content_type |-> content_type, path_has |-> path_has]

SampleFiles(include_nsfw) ==
    {SampleFile(n, "normal", "normal") : n \in SampleNames}
    \cup {SampleFile(n, None, ph) : n \in SampleNames, ph \in {"nsfw", "normal", "none"}}
    \cup (IF include_nsfw THEN {SampleFile(n, "nsfw", "nsfw") : n \in SampleNames} ELSE {})

\* the files that can be enumerated at a position (names are interchangeable,
\* so the first one is called "a")
EnumeratedSample(include_nsfw, position) ==
    {sf \in SampleFiles(include_nsfw) : position = 1 => sf.name = "a"}

\* lines 174-181
ContentType(sample_file) ==
    IF sample_file.content_type # None THEN sample_file.content_type
    ELSE IF sample_file.path_has = "nsfw" THEN "nsfw"
    ELSE IF sample_file.path_has = "normal" THEN "normal"
    ELSE None

Item(original, content_type, name, is_video, output_path) ==
    [original |-> original, content_type |-> content_type, name |-> name,
     is_video |-> is_video, output_path |-> output_path]

NoItem == Item(NoProfile, "", "", FALSE, NoPath)

\* mutant: the index is the position of the sample, not of the artifact
Artifact_IndexOfSample(path, original_name, index, sample, video_dispatched) ==
    [path |-> path, original_name |-> original_name, index |-> sample,
     sample |-> sample, video_dispatched |-> video_dispatched]

\* an entry of generated_images; `sample` and `video_dispatched` are history:
\* the position of the source sample and how its request was dispatched
Artifact(path, original_name, index, sample, video_dispatched) ==
    [path |-> path, original_name |-> original_name, index |-> index,
     sample |-> sample, video_dispatched |-> video_dispatched]

LogEntry(outcome, step) == [outcome |-> outcome, step |-> step]

\* the caption pass: the position in generated_images, the files written,
\* the archive members, and the provider of the client of each
\* generate_caption call made so far
Cap(k, caption_files, image_files, archive) ==
    [k |-> k, caption_files |-> caption_files, image_files |-> image_files,
     archive |-> archive, clients |-> <<>>]

NoCap == Cap(0, <<>>, <<>>, {})

WithUniq(base, u) == [base EXCEPT !.uniq = u]

\* datetime.now() is read only when the base path exists
ReadsClock(base, fs) == base \in DOMAIN fs

\* mutant: the timestamped path is used whether or not it is taken
UniquePath_NoCounter(base, fs, t) ==
    IF base \notin DOMAIN fs THEN base ELSE WithUniq(base, <<t>>)

\* mutant: the base path is used whether or not it is taken
UniquePath_Base(base, fs, t) == base

\* DatasetCreator._get_unique_file_path, with datetime.now() = t
UniquePath(base, fs, t) ==
    IF base \notin DOMAIN fs THEN base
    ELSE IF WithUniq(base, <<t>>) \notin DOMAIN fs THEN WithUniq(base, <<t>>)
    ELSE LET Taken(c) == WithUniq(base, <<t, c>>) \in DOMAIN fs
             counter == CHOOSE c \in 1..(Cardinality(DOMAIN fs) + 1) :
                           ~Taken(c) /\ \A d \in 1..(c - 1) : Taken(d)
         IN  WithUniq(base, <<t, counter>>)

\* lines 304-317: the path the media is to be saved at
OutputPath(st, images, name, is_video, fs, t) ==
    IF CaptionsOn(st) /\ ~is_video
    THEN MkPath("lora", st.trigger_name, "_idx", Len(images) + 1, "png")
    ELSE UniquePath(MkPath("out", name, "_generated", 0,
                           IF is_video THEN "mp4" ELSE "png"), fs, t)

\* generate_image -> _generate_with_wavespeed -> _make_wavespeed_request
InvokerStart(model, is_video, path, pl) ==
    /\ ipc' = "loop"
    /\ call' = [url |-> model, is_video |-> is_video, output_path |-> path]
    /\ payload' = pl
    /\ attempt' = 0
    /\ last_error' = NoLastError
    /\ waits' = <<>>
    /\ posts' = 0
    /\ gets' = 0
    /\ response' = NoResponse
    /\ statuses' = <<>>
    /\ fetch_url' = ""
    /\ raised' = NoExc

\* whether choosing the output path reads the clock
OutputReadsClock(st, name, is_video, fs) ==
    /\ ~(CaptionsOn(st) /\ ~is_video)
    /\ ReadsClock(MkPath("out", name, "_generated", 0,
                         IF is_video THEN "mp4" ELSE "png"), fs)

InvokerIdle ==
    /\ ipc' = "idle"
    /\ call' = [url |-> "", is_video |-> FALSE, output_path |-> NoPath]
    /\ payload' = NoPayload
    /\ attempt' = 0
    /\ last_error' = NoLastError
    /\ waits' = <<>>
    /\ posts' = 0
    /\ gets' = 0
    /\ response' = NoResponse
    /\ statuses' = <<>>
    /\ fetch_url' = ""
    /\ raised' = NoExc

\* mutant: the exception of an item leaves the loop
ItemFailed_Aborts(step) ==
    /\ log' = Append(log, LogEntry("failed", step))
    /\ idx' = idx + 1
    /\ item' = NoItem
    /\ pc' = "done"

\* mutant: the sample that failed is taken again
ItemFailed_Retried(step) ==
    /\ log' = Append(log, LogEntry("failed", step))
    /\ idx' = idx
    /\ item' = NoItem
    /\ pc' = "loop"

\* except Exception: ...; continue
ItemFailed(step) ==
    /\ log' = Append(log, LogEntry("failed", step))
    /\ idx' = idx + 1
    /\ item' = NoItem
    /\ pc' = "loop"

\* mutant: the caption provider and the caption models are not assigned back
Restore_PromptAndGenerationOnly(cfg, original) ==
    [cfg EXCEPT !.ai_provider = original.ai_provider,
                !.gemini_model = original.gemini_model,
                !.openai_model = original.openai_model,
                !.grok_model = original.grok_model,
                !.wavespeed_model = original.wavespeed_model]

\* lines 294-302: the eight saved values are assigned back
Restore(cfg, original) ==
    [cfg EXCEPT !.ai_provider = original.ai_provider,
                !.gemini_model = original.gemini_model,
                !.openai_model = original.openai_model,
                !.grok_model = original.grok_model,
                !.wavespeed_model = original.wavespeed_model,
                !.caption_provider = original.caption_provider,
                !.openai_caption_model = original.openai_caption_model,
                !.grok_caption_model = original.grok_caption_model]

\* mutant: only the lister keeps NSFW files out
SkipsNsfw_Never(content_type, st) == FALSE

\* lines 183-186: an NSFW item is skipped when NSFW processing is disabled
SkipsNsfw(content_type, st) == content_type = "nsfw" /\ ~st.nsfw_enabled

\* lines 169-265: the next sample is taken, classified, skipped or set up,
\* and read
ItemStart ==
    /\ pc = "loop"
    /\ idx <= n_samples
    /\ \E sample_file \in EnumeratedSample(settings.nsfw_enabled, idx), read_ok \in BOOLEAN :
          LET content_type == ContentType(sample_file)
              overridden == Overridden(config, settings, content_type)
          IN  IF SkipsNsfw(content_type, settings)
              THEN /\ log' = Append(log, LogEntry("skipped", ""))
                   /\ idx' = idx + 1
                   /\ UNCHANGED <<pc, config, item, caption_generator>>
              ELSE /\ config' = overridden
                   /\ IF ~PromptProviderReady(overridden, settings)
                      THEN /\ ItemFailed("setup")
                           /\ UNCHANGED caption_generator
                      ELSE /\ caption_generator' =
                                RefreshedCaptionGenerator(caption_generator, overridden, settings)
                           /\ IF ~read_ok
                              THEN ItemFailed("read")
                              ELSE /\ item' = Item(config, content_type, sample_file.name,
                                                   FALSE, NoPath)
                                   /\ pc' = "prompt"
                                   /\ UNCHANGED <<log, idx>>
    /\ UNCHANGED <<settings, baseline, n_samples, generated_images, cap, invVars,
                   files, now, ref_images_data, uses, pg>>

\* lines 267-324: the prompt is generated and saved, the output type is
\* decided, the settings are restored, the output path is chosen and
\* generate_image dispatches the request
GeneratePrompt ==
    /\ pc = "prompt"
    /\ \E r \in RunPromptResponses, t1 \in now..MaxClock :
        \E t2 \in t1..MaxClock :
          LET called == generate_prompt(pg, config.ai_provider, ref_images_data,
                                        item.name, r)
              prompt_ok == ~called.generated.raised
          IN
          /\ pg' = called
          /\ uses' = IF prompt_ok
                     THEN [uses EXCEPT !.prompt_calls = @ + 1,
                                       !.prompt_refs = ref_images_data,
                                       !.generations = @ + 1,
                                       !.generate_refs = ref_images_data]
                     ELSE [uses EXCEPT !.prompt_calls = @ + 1,
                                       !.prompt_refs = ref_images_data]
          /\ IF ~prompt_ok
             THEN /\ ItemFailed("prompt")
                  /\ t1 = now /\ t2 = now
                  /\ UNCHANGED <<config, invVars, files, now>>
             ELSE LET base_prompt_path == MkPath("out", item.name, "_prompt", 0, "txt")
                      prompt_path == UniquePath(base_prompt_path, files, t1)
                      fs1 == WriteFile(files, prompt_path, Content("prompt", idx))
                      is_video == PipelineIsVideo(config.wavespeed_model)
                      restored == Restore(config, item.original)
                      output_path == OutputPath(settings, generated_images, item.name,
                                                is_video, fs1, t2)
                  IN  /\ ReadsClock(base_prompt_path, files) \/ t1 = now
                      /\ OutputReadsClock(settings, item.name, is_video, fs1) \/ t2 = t1
                      /\ files' = fs1
                      /\ config' = restored
                      /\ item' = [item EXCEPT !.is_video = is_video,
                                              !.output_path = output_path]
                      /\ now' = t2
                      /\ pc' = "generate"
                      /\ InvokerStart(restored.wavespeed_model,
                                      GeneratorIsVideo(restored.wavespeed_model), output_path,
                                      WavespeedPayload(ref_images_data, item.name, "prompt",
                                                       restored.wavespeed_model,
                                                       settings.wavespeed_resolution,
                                                       settings.wavespeed_output_format))
                      /\ UNCHANGED <<log, idx>>
    /\ UNCHANGED <<settings, baseline, n_samples, generated_images,
                   caption_generator, cap, ref_images_data>>

\* lines 325-341: generate_image returned or raised
ItemEnd ==
    /\ pc = "generate"
    /\ ipc \in {"returned", "raised"}
    /\ IF ipc = "raised"
       THEN /\ ItemFailed("generate")
            /\ UNCHANGED generated_images
       ELSE /\ generated_images' =
                 IF ~item.is_video
                 THEN Append(generated_images,
                             Artifact(item.output_path, item.name,
                                      Len(generated_images) + 1, idx, call.is_video))
                 ELSE generated_images
            /\ log' = Append(log, LogEntry(IF item.is_video THEN "video" ELSE "recorded", ""))
            /\ idx' = idx + 1
            /\ item' = NoItem
            /\ pc' = "loop"
    /\ InvokerIdle
    /\ UNCHANGED <<settings, config, baseline, n_samples, caption_generator, cap,
                   files, now, ref_images_data, uses, pg>>

\* lines 343-348 and 385-390: after the loop, the batch caption phase is
\* entered or the run is done
LoopExit ==
    /\ pc = "loop"
    /\ idx > n_samples
    /\ IF CaptionsOn(settings) /\ generated_images # <<>> /\ caption_generator # None
       THEN pc' = "captions" /\ cap' = Cap(1, <<>>, <<>>, {})
       ELSE pc' = "done" /\ UNCHANGED cap
    /\ UNCHANGED <<settings, config, baseline, n_samples, idx, item, generated_images,
                   caption_generator, log, invVars, files, now, ref_images_data, uses, pg>>

\* mutant: the caption file name does not carry the index
CaptionPath_Unindexed(st, index) == MkPath("lora", st.trigger_name, "_idx", 0, "txt")

CaptionPath(st, index) == MkPath("lora", st.trigger_name, "_idx", index, "txt")
ExpectedImagePath(st, index, ext) == MkPath("lora", st.trigger_name, "_idx", index, ext)
ZipPath(st) == MkPath("out", st.trigger_name, "_lora_dataset", 0, "zip")

\* mutant: the client is built from the profile in effect at the caption pass
CaptionClient_FromProfile(generator, cfg, st) == NewCaptionGenerator(cfg, st)

\* line 408: the client of self.caption_generator, whatever the profile is now
CaptionClient(generator, cfg, st) == generator

\* lines 400-454: one iteration of the caption loop
CaptionOne ==
    /\ pc = "captions"
    /\ cap.k <= Len(generated_images)
    /\ \E caption_ok \in BOOLEAN :
          LET img_info == generated_images[cap.k]
              img_path == img_info.path
              expected == ExpectedImagePath(settings, img_info.index, img_path.ext)
              caption_path == CaptionPath(settings, img_info.index)
              fs1 == WriteFile(files, caption_path, Content("caption", img_info.sample))
              client == CaptionClient(caption_generator, config, settings)
          IN  IF img_path \notin DOMAIN files \/ ~caption_ok
              THEN /\ cap' = [cap EXCEPT !.k = @ + 1, !.clients = Append(@, client)]
                   /\ UNCHANGED <<files, generated_images>>
              ELSE IF img_path # expected
              THEN /\ files' = IF img_path.dir # expected.dir
                                 THEN RemoveFile(WriteFile(fs1, expected, files[img_path]),
                                                 img_path)
                                 ELSE WriteFile(fs1, expected, files[img_path])
                   /\ generated_images' =
                        [generated_images EXCEPT ![cap.k].path = expected]
                   /\ cap' = [cap EXCEPT !.k = @ + 1,
                                         !.clients = Append(@, client),
                                         !.caption_files = Append(@, caption_path),
                                         !.image_files = Append(@, expected)]
              ELSE /\ files' = fs1
                   /\ cap' = [cap EXCEPT !.k = @ + 1,
                                         !.clients = Append(@, client),
                                         !.caption_files = Append(@, caption_path),
                                         !.image_files = Append(@, img_path)]
                   /\ UNCHANGED generated_images
    /\ UNCHANGED <<pc, settings, config, baseline, n_samples, idx, item,
                   caption_generator, log, invVars, now, ref_images_data, uses, pg>>

Range(seq) == {seq[i] : i \in DOMAIN seq}

\* mutant: only the captions are archived
Archive_CaptionsOnly ==
    /\ pc = "captions"
    /\ cap.k > Len(generated_images)
    /\ IF cap.caption_files # <<>>
       THEN /\ files' = WriteFile(files, ZipPath(settings), Content("zip", 0))
            /\ cap' = [cap EXCEPT !.archive = Range(cap.caption_files)]
       ELSE UNCHANGED <<files, cap>>
    /\ pc' = "done"
    /\ UNCHANGED <<settings, config, baseline, n_samples, idx, item, generated_images,
                   caption_generator, log, invVars, now, ref_images_data, uses, pg>>

\* lines 456-472: the archive is written when a caption was written
Archive ==
    /\ pc = "captions"
    /\ cap.k > Len(generated_images)
    /\ IF cap.caption_files # <<>>
       THEN /\ files' = WriteFile(files, ZipPath(settings), Content("zip", 0))
            /\ cap' = [cap EXCEPT !.archive = Range(cap.image_files) \cup Range(cap.caption_files)]
       ELSE UNCHANGED <<files, cap>>
    /\ pc' = "done"
    /\ UNCHANGED <<settings, config, baseline, n_samples, idx, item, generated_images,
                   caption_generator, log, invVars, now, ref_images_data, uses, pg>>

Next == ItemStart \/ GeneratePrompt \/ LoopTest \/ Sleep \/ Post \/ Fetch \/ ItemEnd
        \/ LoopExit \/ CaptionOne \/ Archive

BaselineModels == {"google/nano-banana-pro/edit", "wan-2.5/image-to-video"}
WavespeedOverridesNsfw == {"", "wan-2.5/image-to-video"}
WavespeedOverridesNormal == {"", "google/nano-banana-pro/edit"}

\* the settings a run can start with: the overrides of both content types, the
\* keys and the switches (with NSFW disabled the NSFW overrides are never read)
InitialSettings ==
    {Settings(nsfw_enabled, captions, grok_key,
              Override(ai, wn, cp, "nsfw"), Override(ai, wm, "openai", "normal")) :
        nsfw_enabled \in BOOLEAN, captions \in BOOLEAN, grok_key \in BOOLEAN,
        ai \in {None, "grok"}, cp \in {"openai", "grok"},
        wn \in WavespeedOverridesNsfw, wm \in WavespeedOverridesNormal}

\* the state after DatasetCreator.__init__ and the listing of the samples
Init ==
    /\ pc = "loop"
    /\ settings \in {st \in InitialSettings :
                        /\ ~st.nsfw_enabled =>
                              (st.nsfw.wavespeed_model = "" /\ st.nsfw.caption_provider = "openai")
                        /\ (st.nsfw.ai_provider = None /\ st.nsfw.caption_provider = "openai")
                              => st.grok_api_key}
    /\ \E wav \in BaselineModels : config = BaseProfile(wav)
    /\ baseline = config
    /\ n_samples \in 0..MaxSamples
    /\ idx = 1
    /\ item = NoItem
    /\ generated_images = <<>>
    /\ caption_generator =
          IF CaptionsOn(settings) THEN NewCaptionGenerator(config, settings) ELSE None
    /\ cap = NoCap
    /\ log = <<>>
    /\ ref_images_data = ReadReferences(settings)
    /\ uses = Uses(Len(ref_images_data), 0, <<>>, 0, <<>>)
    /\ pg = NoPromptCall
    /\ ipc = "idle"
    /\ call = [url |-> "", is_video |-> FALSE, output_path |-> NoPath]
    /\ payload = NoPayload
    /\ attempt = 0
    /\ last_error = NoLastError
    /\ waits = <<>>
    /\ posts = 0
    /\ gets = 0
    /\ response = NoResponse
    /\ statuses = <<>>
    /\ fetch_url = ""
    /\ raised = NoExc
    /\ files = <<>>
    /\ now = 0

Spec == Init /\ [][Next]_vars

\* the run is one sequential thread: as long as a statement remains it is
\* executed, every external call returning or raising
SpecFair == Spec /\ WF_vars(Next)

(***************************************************************************)
(* A run the user may interrupt (KeyboardInterrupt) while an item is being *)
(* processed.                                                              *)
(***************************************************************************)
\* mutant: the handler of the item catches every exception
ItemHandlerCatches_BaseException(exc_type) == TRUE

\* `except Exception` at line 338 (and at image_generator.py:360):
\* KeyboardInterrupt derives from BaseException, not from Exception
ItemHandlerCatches(exc_type) == exc_type # "KeyboardInterrupt"

\* KeyboardInterrupt is raised inside the try statement of the loop body
Interrupt ==
    /\ \/ pc = "loop" /\ idx <= n_samples
       \/ pc \in {"prompt", "generate"}
    /\ IF ItemHandlerCatches("KeyboardInterrupt")
       THEN ItemFailed("interrupt") /\ InvokerIdle
       ELSE /\ pc' = "interrupted"
            /\ UNCHANGED <<log, idx, item>>
            /\ IF pc = "generate"
               THEN /\ ipc' = "raised"
                    /\ raised' = Exc("KeyboardInterrupt", "", "", attempt)
                    /\ UNCHANGED <<call, payload, attempt, last_error, waits, posts,
                                   gets, response, statuses, fetch_url>>
               ELSE UNCHANGED invVars
    /\ UNCHANGED <<settings, config, baseline, n_samples, generated_images,
                   caption_generator, cap, ref_images_data, uses, pg, files, now>>

NextInterruptible == Next \/ Interrupt

\* a run with captions on, NSFW off and no override of the providers or of
\* the generation model
InitInterruptible ==
    /\ Init
    /\ settings.generate_captions /\ ~settings.nsfw_enabled /\ settings.grok_api_key
    /\ settings.normal.ai_provider = None /\ settings.normal.wavespeed_model = ""
    /\ config = BaseProfile("google/nano-banana-pro/edit")

SpecInterruptible == InitInterruptible /\ [][NextInterruptible]_vars

\* one direct call of _make_wavespeed_request, outside any run
InitInvoker ==
    /\ pc = "standalone"
    /\ settings = NoSettings
    /\ config = NoProfile
    /\ baseline = NoProfile
    /\ n_samples = 0
    /\ idx = 0
    /\ item = NoItem
    /\ generated_images = <<>>
    /\ caption_generator = None
    /\ cap = NoCap
    /\ log = <<>>
    /\ ref_images_data = <<>>
    /\ uses = NoUses
    /\ pg = NoPromptCall
    /\ \E v \in BOOLEAN, e \in {"png", "mp4"} :
          InvokerEntry(IF v THEN "wan-2.5/image-to-video" ELSE "google/nano-banana-pro/edit",
                       v, MkPath("out", "a", "_generated", 0, e),
                       IF v THEN VideoPayload("a", "prompt")
                       ELSE EditPayload(<<"ref1", "ref2">>, "a", "prompt",
                                        "google/nano-banana-pro/edit", "1k", "png"))
    /\ files = <<>>
    /\ now = 0

SpecInvoker == InitInvoker /\ [][NextInvoker]_vars

(***************************************************************************)
(* A whole job: DatasetCreator(config) is constructed over an output       *)
(* folder that may hold the files of an earlier run, the samples are       *)
(* listed and selected, and the run follows.                               *)
(***************************************************************************)
\* mutant: the key of the generation provider is not looked at
ImageProviderReady_KeyUnchecked(st) == st.image_provider = "wavespeed"

\* ImageGenerator.setup_provider returns (TRUE) or raises (FALSE)
ImageProviderReady(st) ==
    st.image_provider = "wavespeed" /\ st.wavespeed_api_key

\* DatasetCreator.__init__: the generators are built; a failure of the
\* prompt or image generator leaves the constructor as an exception
\* mutant: a caption generator that cannot be constructed aborts the job
Construct_CaptionsRequired ==
    /\ pc = "construct"
    /\ IF \/ ~PromptProviderReady(config, settings) \/ ~ImageProviderReady(settings)
          \/ (CaptionsOn(settings) /\ NewCaptionGenerator(config, settings) = None)
       THEN /\ pc' = "config_error"
            /\ UNCHANGED caption_generator
       ELSE /\ pc' = "list"
            /\ caption_generator' =
                  IF CaptionsOn(settings) THEN NewCaptionGenerator(config, settings)
                  ELSE None
    /\ generated_images' = <<>>
    /\ UNCHANGED <<settings, config, baseline, n_samples, idx, item, cap, log,
                   invVars, files, now, ref_images_data, uses, pg>>

Construct ==
    /\ pc = "construct"
    /\ IF ~PromptProviderReady(config, settings) \/ ~ImageProviderReady(settings)
       THEN /\ pc' = "config_error"
            /\ UNCHANGED caption_generator
       ELSE /\ pc' = "list"
            /\ caption_generator' =
                  IF CaptionsOn(settings) THEN NewCaptionGenerator(config, settings)
                  ELSE None
    /\ generated_images' = <<>>
    /\ UNCHANGED <<settings, config, baseline, n_samples, idx, item, cap, log,
                   invVars, files, now, ref_images_data, uses, pg>>

\* process_dataset, lines 78-167: the samples are listed; in detailed mode
\* the user picks one of them or cancels (choice 0)
ListSamples ==
    /\ pc = "list"
    /\ \E available \in 0..MaxSamples :
          LET listed == ListImageFiles(available, settings.limit_sample_images) IN
          IF settings.prompt_template = "detailed"
          THEN \E choice \in 0..listed :
                  IF choice = 0
                  THEN /\ pc' = "done"
                       /\ UNCHANGED <<n_samples, ref_images_data, uses>>
                  ELSE /\ pc' = "loop"
                       /\ n_samples' = 1
                       /\ ref_images_data' = ReadReferences(settings)
                       /\ uses' = [uses EXCEPT !.ref_reads = @ + Len(ReadReferences(settings))]
          ELSE /\ pc' = "loop"
               /\ n_samples' = listed
               /\ ref_images_data' = ReadReferences(settings)
               /\ uses' = [uses EXCEPT !.ref_reads = @ + Len(ReadReferences(settings))]
    /\ idx' = 1
    /\ UNCHANGED <<settings, config, baseline, item, generated_images,
                   caption_generator, cap, log, invVars, files, now, pg>>

NextJob == Construct \/ ListSamples \/ Next

AiProviders == {"gemini", "openai", "grok", "claude", None}
ImageProviders == {"wavespeed", "replicate", None}

\* the output folder before the job: empty, or holding files of an earlier
\* run over a sample named "a" with the trigger name of this job
PriorFile == Content("prior", 0)

PriorFileSets ==
    {{},
     {MkPath("out", "a", "_prompt", 0, "txt")},
     {MkPath("out", "a", "_prompt", 0, "txt"), MkPath("out", "a", "_generated", 0, "png")},
     {MkPath("out", "a", "_prompt", 0, "txt"), MkPath("out", "a", "_generated", 0, "png"),
      MkPath("lora", "Aria", "_idx", 1, "png")}}

\* the state in which DatasetCreator(config) is called
InitJob ==
    /\ pc = "construct"
    /\ \E captions \in BOOLEAN, key \in BOOLEAN, okey \in BOOLEAN, prov \in ImageProviders,
          wkey \in BOOLEAN, mode \in {"bulk", "detailed"}, limit \in 0..MaxSamples :
          settings = [Settings(FALSE, captions, key, NoOverride, NoOverride) EXCEPT
                         !.gemini_api_key = key, !.openai_api_key = okey,
                         !.image_provider = prov, !.wavespeed_api_key = wkey,
                         !.prompt_template = mode, !.limit_sample_images = limit]
    /\ \E ai \in AiProviders, wav \in BaselineModels :
          config = [BaseProfile(wav) EXCEPT !.ai_provider = ai]
    /\ baseline = config
    /\ n_samples = 0
    /\ idx = 0
    /\ item = NoItem
    /\ generated_images = <<>>
    /\ caption_generator = None
    /\ cap = NoCap
    /\ log = <<>>
    /\ ref_images_data = <<>>
    /\ uses = NoUses
    /\ pg = NoPromptCall
    /\ ipc = "idle"
    /\ call = [url |-> "", is_video |-> FALSE, output_path |-> NoPath]
    /\ payload = NoPayload
    /\ attempt = 0
    /\ last_error = NoLastError
    /\ waits = <<>>
    /\ posts = 0
    /\ gets = 0
    /\ response = NoResponse
    /\ statuses = <<>>
    /\ fetch_url = ""
    /\ raised = NoExc
    /\ \E prior \in PriorFileSets : files = [p \in prior |-> PriorFile]
    /\ now = 0

SpecJob == InitJob /\ [][NextJob]_vars

(***************************************************************************)
(* process_dataset from its first line, over reference folders of          *)
(* different sizes.                                                        *)
(***************************************************************************)
NextRun == ListSamples \/ Next

\* a reference folder holding n image files
RefFolder(n) == [i \in 1..n |-> "ref" \o ToString(i)]

\* the state in which process_dataset is called: captions on, NSFW off, no
\* override; the generation model, the reference folder, its limit and the
\* mode vary
InitRun ==
    /\ pc = "list"
    /\ \E n \in 0..MaxRefs, limit \in {1, 10}, mode \in {"bulk", "detailed"} :
          settings = [Settings(FALSE, TRUE, TRUE, NoOverride, NoOverride) EXCEPT
                         !.ref_folder = RefFolder(n), !.limit_ref_images = limit,
                         !.prompt_template = mode]
    /\ \E wav \in WavespeedModels : config = BaseProfile(wav)
    /\ baseline = config
    /\ n_samples = 0
    /\ idx = 0
    /\ item = NoItem
    /\ generated_images = <<>>
    /\ caption_generator = NewCaptionGenerator(config, settings)
    /\ cap = NoCap
    /\ log = <<>>
    /\ ref_images_data = <<>>
    /\ uses = NoUses
    /\ pg = NoPromptCall
    /\ ipc = "idle"
    /\ call = [url |-> "", is_video |-> FALSE, output_path |-> NoPath]
    /\ payload = NoPayload
    /\ attempt = 0
    /\ last_error = NoLastError
    /\ waits = <<>>
    /\ posts = 0
    /\ gets = 0
    /\ response = NoResponse
    /\ statuses = <<>>
    /\ fetch_url = ""
    /\ raised = NoExc
    /\ files = <<>>
    /\ now = 0

SpecRun == InitRun /\ [][NextRun]_vars

(***************************************************************************)
(* One direct call of ImageGenerator.generate_image, followed up to the    *)
(* entry of _make_wavespeed_request: the payload it builds.                *)
(***************************************************************************)
PayloadModels ==
    {"google/nano-banana-pro/edit", "bytedance/seedream-v4/edit",
     "bytedance/SeeDream-v4/edit", "wan-2.5/image-to-video"}

RefImages == {"ref1", "ref2", "ref3"}

\* the lists of reference images a caller can pass
RefImageLists == UNION {[1..n -> RefImages] : n \in 0..MaxRefs}

\* generate_image: an unsupported provider raises, wavespeed dispatches on
\* the model and enters _make_wavespeed_request with the payload
GenerateImage ==
    /\ pc = "generate_image"
    /\ pc' = "called"
    /\ IF settings.image_provider = "wavespeed"
       THEN InvokerStart(config.wavespeed_model,
                         GeneratorIsVideo(config.wavespeed_model), item.output_path,
                         WavespeedPayload(ref_images_data, item.name, "prompt",
                                          config.wavespeed_model,
                                          settings.wavespeed_resolution,
                                          settings.wavespeed_output_format))
       ELSE /\ ipc' = "raised"
            /\ raised' = Exc("ValueError", "unsupported_provider", "", 0)
            /\ UNCHANGED <<call, payload, attempt, last_error, waits, posts, gets,
                           response, statuses, fetch_url>>
    /\ UNCHANGED <<settings, config, baseline, n_samples, idx, item, generated_images,
                   caption_generator, cap, log, files, now, ref_images_data, uses, pg>>

InitPayload ==
    /\ pc = "generate_image"
    /\ \E refs \in RefImageLists, tier \in ResolutionTiers, fmt \in {"png", ""},
          prov \in {"wavespeed", "replicate"} :
          /\ settings = [NoSettings EXCEPT !.wavespeed_resolution = tier,
                                           !.wavespeed_output_format = fmt,
                                           !.image_provider = prov]
          /\ ref_images_data = refs
    /\ \E m \in PayloadModels : config = BaseProfile(m)
    /\ baseline = config
    /\ n_samples = 0
    /\ idx = 0
    /\ item = Item(NoProfile, "", "a", FALSE, MkPath("out", "a", "_generated", 0, "png"))
    /\ generated_images = <<>>
    /\ caption_generator = None
    /\ cap = NoCap
    /\ log = <<>>
    /\ uses = NoUses
    /\ pg = NoPromptCall
    /\ ipc = "idle"
    /\ call = [url |-> "", is_video |-> FALSE, output_path |-> NoPath]
    /\ payload = NoPayload
    /\ attempt = 0
    /\ last_error = NoLastError
    /\ waits = <<>>
    /\ posts = 0
    /\ gets = 0
    /\ response = NoResponse
    /\ statuses = <<>>
    /\ fetch_url = ""
    /\ raised = NoExc
    /\ files = <<>>
    /\ now = 0

SpecPayload == InitPayload /\ [][GenerateImage]_vars

(***************************************************************************)
(* One direct call of PromptGenerator.generate_prompt, with every modelled *)
(* response of the text provider.                                          *)
(***************************************************************************)
\* the providers a constructed PromptGenerator can have (setup_provider
\* raised for any other)
TextProviders == {"gemini", "openai", "grok"}

CallGeneratePrompt ==
    /\ pc = "generate_prompt"
    /\ pc' = "prompted"
    /\ \E r \in PromptResponses :
          pg' = generate_prompt(pg, config.ai_provider, ref_images_data, item.name, r)
    /\ uses' = [uses EXCEPT !.prompt_calls = @ + 1, !.prompt_refs = ref_images_data]
    /\ UNCHANGED <<settings, config, baseline, n_samples, idx, item, generated_images,
                   caption_generator, cap, log, ref_images_data, invVars, files, now>>

InitPrompt ==
    /\ pc = "generate_prompt"
    /\ settings = NoSettings
    /\ \E ai \in TextProviders, wav \in BaselineModels :
          config = [BaseProfile(wav) EXCEPT !.ai_provider = ai]
    /\ baseline = config
    /\ n_samples = 0
    /\ idx = 0
    /\ item = Item(NoProfile, "", "a", FALSE, NoPath)
    /\ generated_images = <<>>
    /\ caption_generator = None
    /\ cap = NoCap
    /\ log = <<>>
    /\ ref_images_data \in RefImageLists
    /\ uses = NoUses
    /\ pg = NoPromptCall
    /\ ipc = "idle"
    /\ call = [url |-> "", is_video |-> FALSE, output_path |-> NoPath]
    /\ payload = NoPayload
    /\ attempt = 0
    /\ last_error = NoLastError
    /\ waits = <<>>
    /\ posts = 0
    /\ gets = 0
    /\ response = NoResponse
    /\ statuses = <<>>
    /\ fetch_url = ""
    /\ raised = NoExc
    /\ files = <<>>
    /\ now = 0

SpecPrompt == InitPrompt /\ [][CallGeneratePrompt]_vars

(***************************************************************************)
(* Claims about one invocation (checked under SpecInvoker).                *)
(***************************************************************************)
PostStep == posts' = posts + 1
Answered(r) == r.kind = "http"
Is2xx(r) == Answered(r) /\ r.status >= 200 /\ r.status < 300
Is4xx(r) == Answered(r) /\ r.status >= 400 /\ r.status <= 499
Is5xx(r) == Answered(r) /\ r.status >= 500

\* the response is one the code classifies as retryable
ClassifiedRetryable(r) ==
    Is5xx(r) \/ (Is2xx(r) /\ ReportsFailure(Unwrapped(r.body)))

\* C1: one invocation issues at most 3 POSTs; when the third attempt is
\* still classified as retryable the invocation fails (raises) instead of
\* attempting again.
C1_AtMostThreeAttempts ==
    /\ posts <= 3
    /\ attempt <= 3
    /\ (posts = 3 /\ ClassifiedRetryable(response))
          => (ipc = "raised" /\ raised.type = "RuntimeError" /\ raised.at = 3)

C1_Witness ==
    posts = 3 /\ Is5xx(response) /\ ipc = "raised" /\ Len(waits) = 2

\* C2: an HTTP status in 400-499 on an attempt fails the invocation at once:
\* that attempt is the last POST and no wait follows it (a 404 on the first
\* attempt ends the call after exactly 1 attempt).
C2_ClientErrorFailsImmediately ==
    \A i \in DOMAIN statuses :
        (statuses[i] >= 400 /\ statuses[i] <= 499)
            => (ipc = "raised" /\ posts = i /\ Len(waits) = i - 1)

\* C3: a status >= 500 on an attempt numbered below 3 is followed by a wait
\* and then another attempt; for 503, 503, clean 200 the invocation succeeds
\* on the third attempt after exactly 2 waits.
C3_Step ==
    /\ (PostStep /\ Is5xx(response') /\ attempt < 3)
          => (ipc' = "loop" /\ attempt' = attempt /\ Len(waits') = attempt - 1)
    /\ (ipc = "loop" /\ attempt >= 1 /\ attempt < 3)
          => (ipc' = "sleep" /\ attempt' = attempt + 1 /\ posts' = posts)
    /\ (ipc = "sleep")
          => (ipc' = "post" /\ Len(waits') = Len(waits) + 1 /\ posts' = posts)
    /\ (ipc = "post") => (posts' = posts + 1 /\ posts' = attempt)
    /\ (statuses' = <<503, 503, 200>> /\ ipc' = "returned")
          => (attempt' = 3 /\ posts' = 3 /\ Len(waits') = 2)

C3_ServerErrorRetried == [][C3_Step]_vars

C3_Witness ==
    statuses = <<503, 503, 200>> /\ ipc = "returned" /\ Len(waits) = 2 /\ attempt = 3

\* the effect of a Post step equals the given outcome
StepIs(o) ==
    /\ ipc' = o.next
    /\ raised' = o.exc
    /\ last_error' = o.last_error
    /\ fetch_url' = o.url
    /\ files' = o.fs

\* the effect of a Post step is that of result resolution on the unwrapped body
StepIsResolution(r) ==
    StepIs(ResolveResult(Unwrapped(r.body), call.is_video, call.output_path,
                         attempt, last_error, files, By))

\* the effect of a Post step is that of a retryable error: another attempt
\* while attempts remain, failure otherwise; nothing is resolved or written
StepIsRetry ==
    /\ ipc' = IF attempt < 3 THEN "loop" ELSE "raised"
    /\ attempt < 3 => last_error'.at = attempt
    /\ fetch_url' = ""
    /\ files' = files

\* the claim's test, read literally: status == 'failed' or an error member
HasFailedOrErrorField(obj) == obj.status = "failed" \/ Has(obj.error)

C5_NetworkErrorFailsImmediately ==
    response.kind \in {"timeout", "neterr"}
        => /\ ipc = "raised"
           /\ raised.type = "RuntimeError"
           /\ raised.at = attempt
           /\ posts = attempt
           /\ Len(waits) = attempt - 1

C5_Witness ==
    response.kind = "timeout" /\ attempt = 2 /\ ipc = "raised" /\ statuses = <<503>>

\* no recognized URL member and no recognized base64 member
NoRecognizedArtifact(obj, is_video) ==
    /\ ~Truthy(obj.outputs)
    /\ IF is_video
       THEN ~Has(obj.video) /\ ~Has(obj.video_url) /\ ~Has(obj.video_base64)
       ELSE ~Has(obj.image) /\ ~Has(obj.image_url) /\ ~Has(obj.image_base64)

\* C6: a 2xx response with no reported error and no recognized URL or base64
\* member makes the invocation write the raw body to disk and fail without
\* another attempt.
C6_UnexpectedShapeNotRetried ==
    [][(/\ PostStep /\ Is2xx(response')
        /\ ~ReportsFailure(Unwrapped(response'.body))
        /\ NoRecognizedArtifact(Unwrapped(response'.body), call.is_video))
          => (/\ ipc' = "raised"
              /\ ResponseJsonPath(call.output_path, call.is_video) \in DOMAIN files'
              /\ files'[ResponseJsonPath(call.output_path, call.is_video)].kind = "json")]_vars

\* the URLs a result offers in the fields recognized for the request type
AvailableUrls(result, is_video) ==
    {u \in (IF is_video
            THEN {result.video, result.video_url, result.outputs}
            ELSE {result.image, result.image_url, result.outputs}) : Truthy(u)}

InlineBase64(result, is_video) ==
    IF is_video THEN result.video_base64 ELSE result.image_base64

\* the media files on a disk
MediaPaths(fs) == {p \in DOMAIN fs : fs[p].kind = "media"}

\* C19: on a clean 2xx response a URL offered in any recognized URL field is
\* fetched, and the fetched bytes are written at the output path; only when
\* no URL is offered an inline base64 field is decoded and written; when
\* neither is offered the attempt fails and writes no media.
C19_Step ==
    /\ (PostStep /\ Is2xx(response') /\ ~ReportsFailure(Unwrapped(response'.body)))
          => LET result == Unwrapped(response'.body)
                 urls == AvailableUrls(result, call.is_video)
                 b64 == InlineBase64(result, call.is_video)
             IN  IF urls # {}
                 THEN ipc' = "get" /\ fetch_url' \in urls /\ files' = files
                 ELSE IF Has(b64)
                 THEN /\ ipc' # "get"
                      /\ b64 = "valid" =>
                            (ipc' = "returned" /\ MediaPaths(files') # MediaPaths(files))
                 ELSE ipc' \in {"loop", "raised"} /\ MediaPaths(files') = MediaPaths(files)
    /\ (ipc = "get" /\ ipc' = "returned")
          => \E p \in MediaPaths(files') :
                p.dir = call.output_path.dir /\ p.name = call.output_path.name

C19_ResolutionPriority == [][C19_Step]_vars

(***************************************************************************)
(* Claims about a run (checked under Spec).                                *)
(***************************************************************************)
ItemFails == Len(log') = Len(log) + 1 /\ log'[Len(log')].outcome = "failed"

\* C7: when a per-item step (provider set-up, reading the sample, prompt
\* generation, media generation) raises, the loop goes on with the next
\* sample; every enumerated sample is taken up and the decision about the
\* batch caption phase is reached whatever failed before.
C7_Step ==
    /\ ItemFails => (pc' = "loop" /\ idx' = idx + 1 /\ n_samples' = n_samples
                     /\ generated_images' = generated_images)
    /\ pc' = "loop" => (Len(log') = idx' - 1 /\ idx' <= n_samples + 1)
    /\ pc' \in {"captions", "done"} => Len(log') = n_samples
    /\ (pc = "loop" /\ pc' \in {"captions", "done"})
          => (pc' = "captions"
                <=> (CaptionsOn(settings) /\ generated_images # <<>>
                     /\ caption_generator # None))

C7_ItemFailureIsolated == [][C7_Step]_vars

C7_Witness ==
    /\ pc = "captions"
    /\ Len(log) = 2
    /\ log[1].outcome = "failed" /\ log[1].step = "generate"
    /\ log[2].outcome = "recorded"

\* C8: at the start of every sample item and at the end of the run the
\* active profile equals the baseline the run started with.
C8_ProfileIsBaselineBetweenItems ==
    pc \in {"loop", "captions", "done"} => config = baseline

\* C9: the artifacts carry the indices 1..k in list order, in the order their
\* samples were enumerated; failed, skipped and video items consume no index.
C9_IndicesContiguous ==
    /\ \A i \in DOMAIN generated_images : generated_images[i].index = i
    /\ \A i, j \in DOMAIN generated_images :
          i < j => generated_images[i].sample < generated_images[j].sample
    /\ pc \in {"loop", "captions", "done"} =>
          Len(generated_images) =
              Cardinality({i \in DOMAIN log : log[i].outcome = "recorded"})
    /\ \A i \in DOMAIN generated_images :
          /\ generated_images[i].sample \in DOMAIN log =>
                log[generated_images[i].sample].outcome = "recorded"

C9_Witness ==
    /\ Len(log) = 2 /\ log[1].outcome \in {"failed", "skipped", "video"}
    /\ Len(generated_images) = 1
    /\ generated_images[1].sample = 2 /\ generated_images[1].index = 1

\* C10: an item whose generation call is dispatched as a video request
\* records no artifact, so no video output is in the artifact list.
C10_NoArtifactForVideoDispatch ==
    \A i \in DOMAIN generated_images : ~generated_images[i].video_dispatched

\* every enumerated sample was generated as an image and recorded
AllRecordedAsImages ==
    /\ Len(log) = n_samples
    /\ \A i \in DOMAIN log : log[i].outcome = "recorded"
    /\ \A i \in DOMAIN generated_images : ~generated_images[i].video_dispatched

FilesOfKind(kind) == {p \in DOMAIN files : files[p].kind = kind}

TriggerFile(index, ext) == MkPath("lora", settings.trigger_name, "_idx", index, ext)

\* C15: with captions enabled and trigger token T, a run over N >= 1 samples
\* in which every prompt, every image generation and every caption succeeds
\* leaves the images T_0001..T_000N, the captions T_0001.txt..T_000N.txt and
\* one archive T_lora_dataset.zip whose entries are exactly those 2N files.
C15_CaptionedRun ==
    (/\ pc = "done" /\ CaptionsOn(settings) /\ n_samples >= 1
     /\ AllRecordedAsImages
     /\ Len(cap.caption_files) = n_samples)
        => /\ FilesOfKind("media") = {TriggerFile(i, "png") : i \in 1..n_samples}
           /\ FilesOfKind("caption") = {TriggerFile(i, "txt") : i \in 1..n_samples}
           /\ FilesOfKind("zip") =
                 {MkPath("out", settings.trigger_name, "_lora_dataset", 0, "zip")}
           /\ cap.archive = {TriggerFile(i, e) : i \in 1..n_samples, e \in {"png", "txt"}}
           /\ Cardinality(cap.archive) = 2 * n_samples

C15_Witness ==
    /\ pc = "done" /\ CaptionsOn(settings) /\ n_samples = 2
    /\ AllRecordedAsImages
    /\ Len(cap.caption_files) = 2
    /\ Cardinality(cap.archive) = 4

\* C16: with captions disabled, a run over N samples in which every prompt
\* and every image generation succeeds leaves exactly N prompt files and N
\* image files, no caption file and no archive.
C16_UncaptionedRun ==
    (pc = "done" /\ ~settings.generate_captions /\ AllRecordedAsImages)
        => /\ Cardinality(FilesOfKind("prompt")) = n_samples
           /\ Cardinality(FilesOfKind("media")) = n_samples
           /\ FilesOfKind("caption") = {}
           /\ FilesOfKind("zip") = {}
           /\ cap = NoCap

C16_Witness ==
    /\ pc = "done" /\ ~settings.generate_captions /\ n_samples = 2
    /\ AllRecordedAsImages
    /\ \E p \in FilesOfKind("media") : p.uniq # <<>>
    /\ \E p \in FilesOfKind("prompt") : p.uniq # <<>>

\* the indices of the artifacts whose caption was written
Captioned == {p.index : p \in FilesOfKind("caption")}

\* what C17 says about the caption pass apart from the existence of the archive
C17_PassCompletes ==
    /\ cap.k = Len(generated_images) + 1
    /\ Len(cap.image_files) = Len(cap.caption_files)
    /\ Len(cap.caption_files) = Cardinality(Captioned)
    /\ Captioned \subseteq {generated_images[i].index : i \in DOMAIN generated_images}

\* C17 as stated: after the caption pass every artifact was taken up,
\* whatever failed before it, and the archive exists; it holds an image and
\* a caption of the same index for exactly the captioned artifacts.
C17_Original ==
    (pc = "done" /\ cap.k > 0)
        => /\ C17_PassCompletes
           /\ FilesOfKind("zip") # {}
           /\ cap.archive = {TriggerFile(i, e) : i \in Captioned, e \in {"png", "txt"}}

\* C17 amended: the archive exists exactly when at least one caption
\* succeeded; the rest as stated.
C17_Amended ==
    (pc = "done" /\ cap.k > 0)
        => /\ C17_PassCompletes
           /\ FilesOfKind("zip") # {} <=> Captioned # {}
           /\ cap.archive = {TriggerFile(i, e) : i \in Captioned, e \in {"png", "txt"}}

C17_Witness ==
    /\ pc = "done" /\ Len(generated_images) = 2
    /\ Captioned = {2}
    /\ FilesOfKind("zip") # {}
    /\ cap.archive = {TriggerFile(2, "png"), TriggerFile(2, "txt")}

(***************************************************************************)
(* Claims about the request payload (checked under SpecPayload).           *)
(***************************************************************************)
\* C13: an image-edit payload built from n <= 2 reference images holds
\* exactly n + 1 images, the references first in their given order and the
\* scene image last; more than 2 references are cut to the first 2; a video
\* payload holds exactly one image, the scene image, whatever n is.
C13_PayloadImages ==
    (pc = "called" /\ ipc = "loop") =>
        LET refs == ref_images_data
            n == Len(refs)
        IN  IF call.is_video
            THEN /\ "image" \in payload.keys
                 /\ "images" \notin payload.keys
                 /\ payload.image = item.name
                 /\ payload.images = <<>>
            ELSE /\ "images" \in payload.keys
                 /\ "image" \notin payload.keys
                 /\ n <= 2 =>
                       /\ Len(payload.images) = n + 1
                       /\ \A i \in 1..n : payload.images[i] = refs[i]
                       /\ payload.images[n + 1] = item.name
                 /\ n > 2 => payload.images = <<refs[1], refs[2], item.name>>

C13_Witness ==
    /\ pc = "called" /\ ipc = "loop" /\ ~call.is_video
    /\ ref_images_data = <<"ref3", "ref1", "ref2">>
    /\ payload.images = <<"ref3", "ref1", "a">>

\* the size the claim states for a tier
C14_SizeOfTier(tier) ==
    IF tier = "2k" THEN "2048*2048"
    ELSE IF tier = "4k" THEN "4096*4096"
    ELSE "1920*1920"

\* C14 as stated: a Seedream payload has a size, given by the tier alone,
\* and no resolution; the payload of another image model has the tier as
\* its resolution and no size.
C14_Original ==
    (pc = "called" /\ ipc = "loop" /\ ~call.is_video) =>
        IF IsSeedream(config.wavespeed_model)
        THEN /\ "size" \in payload.keys
             /\ payload.size = C14_SizeOfTier(settings.wavespeed_resolution)
             /\ "resolution" \notin payload.keys
        ELSE /\ "resolution" \in payload.keys
             /\ payload.resolution = settings.wavespeed_resolution
             /\ "size" \notin payload.keys

\* C14 amended: as stated for Seedream models; the payload of another image
\* model has the tier as its resolution only when the tier is set (not empty,
\* not None), has no resolution otherwise, and never has a size.
C14_Amended ==
    (pc = "called" /\ ipc = "loop" /\ ~call.is_video) =>
        IF IsSeedream(config.wavespeed_model)
        THEN /\ "size" \in payload.keys
             /\ payload.size = C14_SizeOfTier(settings.wavespeed_resolution)
             /\ "resolution" \notin payload.keys
        ELSE /\ "size" \notin payload.keys
             /\ IF settings.wavespeed_resolution \in {"", None}
                THEN "resolution" \notin payload.keys
                ELSE /\ "resolution" \in payload.keys
                     /\ payload.resolution = settings.wavespeed_resolution

C14_Witness ==
    /\ pc = "called" /\ ipc = "loop"
    /\ config.wavespeed_model = "bytedance/SeeDream-v4/edit"
    /\ settings.wavespeed_resolution = "4k"
    /\ payload.size = "4096*4096"

(***************************************************************************)
(* Claims about a job (checked under SpecJob).                             *)
(***************************************************************************)
\* C11: no step writes a prompt file or a media file at a path where a file
\* existed before the step, whichever naming scheme chose the path.
C11_Step ==
    \A p \in DOMAIN files :
        (p \in DOMAIN files' /\ files'[p] # files[p])
            => files'[p].kind \notin {"prompt", "media"}

C11_NeverOverwrites == [][C11_Step]_vars

\* the base paths the pipeline hands to the resolver
BasePaths ==
    {MkPath("out", n, "_prompt", 0, "txt") : n \in SampleNames}
    \cup {MkPath("out", n, "_generated", 0, e) : n \in SampleNames, e \in {"png", "mp4"}}

\* what C12 says apart from the repeated call: the returned path is free, and
\* once a file is created there the next call returns another path
C12_FreshPath ==
    \A base \in BasePaths, t1 \in 0..MaxClock, t2 \in 0..MaxClock :
        LET first == UniquePath(base, files, t1) IN
        /\ first \notin DOMAIN files
        /\ t1 <= t2 =>
              UniquePath(base, WriteFile(files, first, Content("prompt", 0)), t2) # first

\* C12 as stated: on every disk state, two calls in succession with no file
\* created in between return the same path; the returned path is free, and
\* after a file is created there the next call returns another path.
C12_Original ==
    /\ C12_FreshPath
    /\ \A base \in BasePaths, t1 \in 0..MaxClock, t2 \in 0..MaxClock :
          t1 <= t2 => UniquePath(base, files, t1) = UniquePath(base, files, t2)

\* C12 amended: two calls in succession return the same path when the base
\* path is free or the clock shows the same second at both calls.
C12_Amended ==
    /\ C12_FreshPath
    /\ \A base \in BasePaths, t1 \in 0..MaxClock, t2 \in 0..MaxClock :
          (base \notin DOMAIN files \/ t1 = t2)
              => UniquePath(base, files, t1) = UniquePath(base, files, t2)

\* the resolver was applied on a disk where the base path and the
\* timestamped path were taken
C12_Witness ==
    \E p \in DOMAIN files :
        /\ Len(p.uniq) = 2
        /\ WithUniq(p, <<>>) \in DOMAIN files
        /\ WithUniq(p, <<p.uniq[1]>>) \in DOMAIN files
        /\ UniquePath(WithUniq(p, <<>>), files, p.uniq[1]) \notin DOMAIN files

\* the configuration the constructor must refuse
BlankOrUnknownProvider ==
    \/ baseline.ai_provider \notin {"gemini", "openai", "grok"}
    \/ baseline.ai_provider = "gemini" /\ ~settings.gemini_api_key
    \/ baseline.ai_provider = "openai" /\ ~settings.openai_api_key
    \/ baseline.ai_provider = "grok" /\ ~settings.grok_api_key
    \/ settings.image_provider # "wavespeed"
    \/ ~settings.wavespeed_api_key

\* C18: with a blank credential of the selected prompt provider or of the
\* generation provider, or with an unknown provider, construction fails:
\* no sample is listed or processed and no request is issued.
C18_ConfigurationErrorIsFatal ==
    (BlankOrUnknownProvider /\ pc # "construct")
        => /\ pc = "config_error"
           /\ n_samples = 0 /\ log = <<>> /\ generated_images = <<>>
           /\ ipc = "idle" /\ posts = 0 /\ gets = 0

C18_Witness ==
    /\ pc = "config_error"
    /\ baseline.ai_provider = "openai" /\ settings.openai_api_key
    /\ settings.image_provider = "wavespeed" /\ ~settings.wavespeed_api_key

\* C20: in detailed mode exactly one sample enters the loop, or the run ends
\* without any call when the selection is cancelled; in bulk mode at most
\* limit_sample_images samples enter the loop.
C20_ModeBoundsSamples ==
    /\ (pc \notin {"construct", "config_error", "list"}
        /\ settings.prompt_template = "detailed")
          => \/ n_samples = 1
             \/ /\ n_samples = 0 /\ pc = "done" /\ log = <<>>
                /\ ipc = "idle" /\ posts = 0 /\ cap = NoCap
    /\ (pc \notin {"construct", "config_error", "list"}
        /\ settings.prompt_template # "detailed")
          => (n_samples <= settings.limit_sample_images
              /\ Len(log) <= settings.limit_sample_images)

(***************************************************************************)
(* Claims about the waits and the failure of an invocation                 *)
(***************************************************************************)
\* C24: no wait precedes the first attempt and exactly one wait precedes
\* every later attempt, so an invocation that has made k >= 1 attempts has
\* waited k - 1 times; the wait before attempt k is min(3*(k-1), 30)
\* seconds; the waits are non-decreasing in k and never exceed 30 seconds.
C24_WaitsBetweenAttempts ==
    /\ attempt <= 1 => waits = <<>>
    /\ (attempt >= 1 /\ ipc = "sleep") => (Len(waits) = attempt - 2 /\ posts = attempt - 1)
    /\ (attempt >= 1 /\ ipc = "post") => (Len(waits) = attempt - 1 /\ posts = attempt - 1)
    /\ (attempt >= 1 /\ ipc \notin {"sleep", "post"})
          => (Len(waits) = attempt - 1 /\ posts = attempt)
    /\ \A k \in 2..(Len(waits) + 1) : waits[k - 1] = Min(3 * (k - 1), 30)
    /\ \A k \in 2..MaxWaitAttempt :
          /\ wait_time(k) = Min(3 * (k - 1), 30)
          /\ wait_time(k) <= wait_time(k + 1)
          /\ wait_time(k) <= 30

C24_Witness ==
    /\ ipc = "returned" /\ attempt = 3 /\ posts = 3
    /\ waits = <<3, 6>>
    /\ wait_time(MaxWaitAttempt) = 30

\* the error detail the latest POST showed: the status line of an error
\* status, the error member of a 2xx body that reports a failure
ObservedDetail(r) ==
    IF r.status >= 400 THEN StatusErrorMsg(r.status)
    ELSE ErrorMsg(Unwrapped(r.body))

\* C25: an invocation that fails on its last attempt with an error status
\* or a reported failure raises one error, and that error carries the
\* detail observed on the last attempt, whatever the earlier attempts showed.
C25_RaisesLastDetail ==
    (posts = max_error_attempts /\ Answered(response)
       /\ (response.status >= 400 \/ ClassifiedRetryable(response)))
        => /\ ipc = "raised"
           /\ raised.type = "RuntimeError"
           /\ raised.at = max_error_attempts
           /\ raised.detail = ObservedDetail(response)

C25_Witness ==
    /\ ipc = "raised" /\ posts = 3
    /\ statuses = <<500, 200, 503>>
    /\ last_error = LastError("moderation", 2)
    /\ raised.detail = "HTTP 503 Server Error"

\* C26: a result-fetch GET that does not deliver the result (an error status
\* of any class, a timeout, a connection error) makes the invocation fail:
\* the step of the GET ends in the raised exception, no POST and no second
\* GET is issued, and the disk, the output path included, is left as it was.
C26_Step ==
    /\ (ipc = "get" /\ ipc' # "returned") =>
          /\ ipc' = "raised"
          /\ raised'.type = "RuntimeError"
          /\ raised'.at = attempt
          /\ gets' = 1
          /\ posts' = posts
          /\ files' = files
    /\ ipc = "raised" => UNCHANGED <<ipc, posts, gets, files>>

ReachedPrompt ==
    Cardinality({i \in DOMAIN log :
                    \/ log[i].outcome \in {"recorded", "video"}
                    \/ log[i].outcome = "failed" /\ log[i].step \in {"prompt", "generate"}})
    + (IF pc = "generate" THEN 1 ELSE 0)

\* C21: every prompt-generation call sends exactly one request to the text
\* provider, whether it returns or raises: in a run, the requests sent so far
\* are as many as the samples that have reached the prompt stage, each of
\* which made one call.
C21_OneRequestPerCall ==
    (pc \in {"loop", "prompt", "generate", "captions", "done"}) =>
        /\ uses.prompt_calls = ReachedPrompt
        /\ pg.requests = uses.prompt_calls

C21_Witness ==
    /\ pc = "done"
    /\ Len(log) = 2
    /\ log[1] = LogEntry("failed", "prompt")
    /\ log[2].outcome = "recorded"
    /\ pg.requests = 2

\* a successful call of a chat-completion provider that yields no usable
\* text in the sense of the claim
ChatProviderCalled == pc = "prompted" /\ pg.provider \in {"openai", "grok"} /\ ~pg.response.raises
NoChoices == pg.response.choices = 0
EmptyContent == pg.response.choices = 1 /\ Strip(IF pg.response.content = None THEN ""
                                                  ELSE pg.response.content) = ""
Truncation == pg.response.choices = 1 /\ pg.response.finish_reason = "length"
NoContentDiagnostics == {"no_choices", "none_content", "empty_string"}

ItemOverrideModel ==
    IF item.content_type = "nsfw" THEN settings.nsfw.wavespeed_model
    ELSE IF item.content_type = "normal" THEN settings.normal.wavespeed_model
    ELSE ""

\* C23: while the generation request of an item whose content type
\* overrides the generation model is in progress, the override is still
\* active and the request goes to the override model; the baseline profile
\* is not yet restored.
C23_GeneratedUnderOverride ==
    (pc = "generate" /\ ItemOverrideModel # "") =>
        /\ call.url = ItemOverrideModel
        /\ config.wavespeed_model = ItemOverrideModel
        /\ config = Overridden(item.original, settings, item.content_type)

(***************************************************************************)
(* Claims about the naming of the media file                               *)
(***************************************************************************)
\* C27: when an item ends with a saved still image and captions are on, the
\* output path is lora_dataset/{trigger}_{i}.png, a media file of this
\* sample named {trigger}_{i} is on the disk there, and i is the index
\* recorded for the artifact, whatever happened to the samples before;
\* otherwise the output path is in the output folder, named after the
\* sample, and was free when it was chosen.
C27_Step ==
    /\ (pc = "generate" /\ ipc = "returned" /\ pc' = "loop") =>
          IF CaptionsOn(settings) /\ ~item.is_video
          THEN LET a == generated_images'[Len(generated_images')] IN
               /\ Len(generated_images') = Len(generated_images) + 1
               /\ a.path = item.output_path
               /\ item.output_path = TriggerFile(a.index, "png")
               /\ \E f \in DOMAIN files :
                     /\ f.dir = "lora" /\ f.name = settings.trigger_name
                     /\ f.tag = "_idx" /\ f.index = a.index
                     /\ files[f] = Content("media", idx)
          ELSE /\ item.output_path.dir = "out"
               /\ item.output_path.name = item.name
               /\ item.output_path.tag = "_generated"
    /\ (pc = "prompt" /\ pc' = "generate" /\ ~(CaptionsOn(settings) /\ ~item'.is_video)) =>
          /\ item'.output_path \notin DOMAIN files'
          /\ item'.output_path.dir = "out"
          /\ item'.output_path.name = item.name

C27_FileNameCarriesIndex == [][C27_Step]_vars

C27_Witness ==
    /\ CaptionsOn(settings)
    /\ pc = "loop" /\ Len(log) = 2
    /\ log[1] = LogEntry("failed", "generate")
    /\ Len(generated_images) = 1
    /\ generated_images[1].path = TriggerFile(1, "png")
    /\ generated_images[1].sample = 2
    /\ TriggerFile(1, "png") \in DOMAIN files

(***************************************************************************)
(* Claims about the progress of a run                                      *)
(***************************************************************************)
\* C28: the loop position never goes back and every sample leaves exactly
\* one log entry; the prompt provider is called at most once and the
\* generation at most once for a sample (only on the way from the prompt
\* stage to the generation stage or to the next sample); and the run
\* ends, after the last sample and the caption phase when there is one, in
\* the state done, with every enumerated sample accounted for.
C28_Step ==
    /\ idx' \in {idx, idx + 1}
    /\ Len(log') = idx' - 1
    /\ (pc = "prompt" /\ pc' # "prompt") =>
          /\ uses'.prompt_calls = uses.prompt_calls + 1
          /\ pg'.requests = pg.requests + 1
          /\ \/ pc' = "generate" /\ idx' = idx /\ uses'.generations = uses.generations + 1
             \/ pc' = "loop" /\ idx' = idx + 1 /\ uses'.generations = uses.generations
    /\ ~(pc = "prompt" /\ pc' # "prompt") => (uses' = uses /\ pg' = pg)
    /\ (pc = "generate" /\ pc' # "generate") => (pc' = "loop" /\ idx' = idx + 1)
    /\ (pc # "prompt" /\ pc' = "prompt") => (pc = "loop" /\ idx' = idx)

C28_RunTerminates ==
    /\ [][C28_Step]_vars
    /\ <>[](pc = "done" /\ Len(log) = n_samples /\ ipc = "idle")

C28_Witness ==
    /\ pc = "done" /\ n_samples = 2 /\ Len(log) = 2
    /\ uses.prompt_calls = 2 /\ uses.generations = 1
    /\ cap.k = 2

\* C29: a user interrupt raised while an item is processed is not turned
\* into a failure of that item: the run stops where it is, with the sample
\* unlogged and the position unchanged; after it no statement of the run is
\* executed, so no later sample is processed and neither the caption phase
\* nor the archive runs.
C29_Step ==
    /\ \A i \in DOMAIN log' : log'[i].step # "interrupt"
    /\ (pc # "interrupted" /\ pc' = "interrupted") =>
          /\ pc \in {"loop", "prompt", "generate"}
          /\ idx <= n_samples
          /\ UNCHANGED <<log, idx, generated_images, cap, files>>
          /\ cap = NoCap
          /\ ZipPath(settings) \notin DOMAIN files
    /\ pc = "interrupted" => UNCHANGED vars

C29_InterruptStopsRun == [][C29_Step]_vars

C29_Witness ==
    /\ pc = "interrupted"
    /\ n_samples = 2 /\ idx = 1 /\ log = <<>>
    /\ raised.type = "KeyboardInterrupt" /\ waits = <<3>> /\ posts = 1
    /\ generated_images = <<>> /\ cap = NoCap

(***************************************************************************)
(* Claims about the reference images                                       *)
(***************************************************************************)
\* C30: a run reads at most 2 reference images, all of them in the step
\* that precedes the loop and none afterwards; the list read there, in its
\* order, is what every prompt call and every generation call of the run
\* receives.
C30_Step ==
    /\ uses'.ref_reads <= 2
    /\ Len(ref_images_data') <= 2
    /\ pc # "list" => (uses'.ref_reads = uses.ref_reads /\ ref_images_data' = ref_images_data)
    /\ pc' \in {"loop", "prompt", "generate", "captions"} =>
          /\ uses'.ref_reads = Len(ref_images_data')
          /\ ref_images_data' = FirstTwo(RefFiles(settings))
    /\ uses'.prompt_calls >= 1 =>
          /\ uses'.prompt_refs = ref_images_data'
          /\ SubSeq(pg'.images, 1, Len(pg'.images) - 1) = ref_images_data'
    /\ uses'.generations >= 1 => uses'.generate_refs = uses'.prompt_refs
    /\ (pc' = "generate" /\ ~call'.is_video) =>
          payload'.images = ref_images_data' \o <<item'.name>>

C30_ReferencesReadOnce == [][C30_Step]_vars

C30_Witness ==
    /\ pc = "done" /\ Len(log) = 2
    /\ Len(settings.ref_folder) = 3 /\ settings.limit_ref_images = 10
    /\ uses.ref_reads = 2
    /\ uses.prompt_calls = 2 /\ uses.generations = 2
    /\ uses.generate_refs = <<"ref1", "ref2">>

(***************************************************************************)
(* Claims about the two video tests                                        *)
(***************************************************************************)
\* C31: for the model identifier of a run without overrides, the video test
\* of the pipeline (which chose the extension of the output path and
\* decides whether the artifact is recorded) and the video test of the
\* generator (which chose the kind of request) give the same answer.
C31_VideoTestsAgree ==
    (pc = "generate" /\ item.original = config) =>
        /\ item.is_video = PipelineIsVideo(config.wavespeed_model)
        /\ call.is_video = GeneratorIsVideo(config.wavespeed_model)
        /\ item.is_video = call.is_video

(***************************************************************************)
(* Claims about the recorded artifacts and the profile                     *)
(***************************************************************************)
\* C32: every recorded artifact has, at exactly its recorded path, a file
\* holding the media bytes that the generation invocation of its sample
\* wrote.
C32_ArtifactPathHoldsMedia ==
    \A i \in DOMAIN generated_images :
        /\ generated_images[i].path \in DOMAIN files
        /\ files[generated_images[i].path] = Content("media", generated_images[i].sample)

\* C33: the snapshot of an item is the profile as it is when the item
\* starts, before its overrides are applied; when the item completes without
\* raising (it is skipped, or its media is saved), each of the eight
\* profile fields has the value of that snapshot again.
C33_Step ==
    /\ (pc = "loop" /\ pc' = "prompt") => item'.original = config
    /\ (pc = "loop" /\ Len(log') = Len(log) + 1 /\ log'[Len(log')].outcome = "skipped")
          => config' = config
    /\ (pc = "generate" /\ Len(log') = Len(log) + 1
          /\ log'[Len(log')].outcome \in {"recorded", "video"})
          => /\ config' = item.original
             /\ \A f \in DOMAIN config' : config'[f] = item.original[f]
    /\ (pc \in {"prompt", "generate"} /\ pc' \in {"prompt", "generate"})
          => item'.original = item.original

C33_ProfileRestoredOnCompletion == [][C33_Step]_vars

C33_Witness ==
    /\ pc = "loop" /\ Len(log) = 1 /\ log[1].outcome = "recorded"
    /\ pg.requests = 1 /\ pg.provider = "grok"
    /\ config = baseline /\ config.ai_provider = "gemini"

(* Claims about the client of the caption pass *)
\* the step of an item that reaches the refresh of the generators (lines 252-262)
RefreshReached ==
    /\ pc = "loop"
    /\ \/ pc' = "prompt"
       \/ Len(log') = Len(log) + 1 /\ log'[Len(log')] = LogEntry("failed", "read")

\* the provider of the client that CaptionGenerator builds for a caption provider
ClientOf(caption_provider) == IF caption_provider = "grok" THEN "grok" ELSE "openai"

\* the key that CaptionGenerator requires for a caption provider is set
CaptionKeySet(caption_provider) ==
    IF caption_provider = "grok" THEN settings.grok_api_key ELSE settings.openai_api_key

\* every generate_caption call of the pass goes through the client of the
\* caption generator as it is then, and only the refresh step of an item
\* changes the caption generator
CaptionPassUsesGenerator ==
    /\ ~RefreshReached => caption_generator' = caption_generator
    /\ cap'.clients # cap.clients =>
          /\ pc = "captions"
          /\ cap'.clients = Append(cap.clients, caption_generator)
    /\ pc = "captions" => caption_generator # None

\* C34 as stated: the caption generator that the pass uses is the one built
\* at the refresh step of the most recent item that reached it, for the
\* caption provider of the profile that item ran under.
C34_Original_Step ==
    /\ CaptionPassUsesGenerator
    /\ (RefreshReached /\ caption_generator # None)
          => caption_generator' = ClientOf(config'.caption_provider)

C34_Original == [][C34_Original_Step]_vars

\* C34: every artifact of the caption pass is captioned through the client of
\* the one caption generator, which is the one built at the refresh step of
\* the most recent item whose refresh could build one (the key of that item's
\* caption provider being set), and the one from before when it could not; it
\* is not rebuilt from the restored profile and is the same for all artifacts.
C34_Step ==
    /\ CaptionPassUsesGenerator
    /\ (RefreshReached /\ caption_generator # None)
          => caption_generator' =
                IF CaptionKeySet(config'.caption_provider)
                THEN ClientOf(config'.caption_provider)
                ELSE caption_generator

C34_CaptionClientOfLastRefresh == [][C34_Step]_vars

C34_Witness ==
    /\ pc = "done"
    /\ cap.clients = <<"grok", "grok">>
    /\ Len(cap.caption_files) = 2
    /\ config.caption_provider = "openai"
    /\ NewCaptionGenerator(config, settings) = "openai"

(* Claims about NSFW items when NSFW processing is disabled *)
\* C35: with NSFW processing disabled no item classified NSFW gets past the
\* classification, and the step that skips it makes no prompt-provider call
\* and no generation call, records no artifact, writes no file and leaves
\* the profile as it is.
C35_Step ==
    /\ ~settings.nsfw_enabled => item'.content_type # "nsfw"
    /\ (Len(log') = Len(log) + 1 /\ log'[Len(log')].outcome = "skipped")
          => /\ ~settings.nsfw_enabled
             /\ pc = "loop" /\ pc' = "loop" /\ idx' = idx + 1
             /\ pg' = pg /\ uses' = uses
             /\ posts' = posts /\ gets' = gets /\ ipc' = ipc
             /\ generated_images' = generated_images
             /\ files' = files
             /\ config' = config
             /\ caption_generator' = caption_generator

C35_NsfwItemSkippedWithoutEffect == [][C35_Step]_vars

C35_Witness ==
    /\ ~settings.nsfw_enabled
    /\ pc = "done"
    /\ Len(log) = 2 /\ log[1].outcome = "skipped" /\ log[2].outcome = "recorded"
    /\ pg.requests = 1 /\ uses.generations = 1
    /\ Len(generated_images) = 1 /\ generated_images[1].sample = 2
    /\ config = baseline

(* Claims about a caption generator that cannot be constructed *)
\* captions are enabled with a trigger token and CaptionGenerator(config)
\* raises for the profile of the job
StartupCaptionFailure ==
    CaptionsOn(settings) /\ NewCaptionGenerator(baseline, settings) = None

\* the caption files and the archive that a caption pass of this job would write
CaptionOutputs ==
    {CaptionPath(settings, i) : i \in 1..MaxSamples} \cup {ZipPath(settings)}

\* C36: when captions are enabled with a trigger token and the caption
\* generator cannot be constructed, construction still succeeds and the run
\* goes on without a caption generator: every image it records is at
\* lora_dataset/{trigger}_{index:04d}, where its media file is, the caption
\* pass is not entered and neither a caption file nor the archive is written.
C36_Step ==
    StartupCaptionFailure =>
        /\ (pc = "construct" /\ PromptProviderReady(config, settings)
               /\ ImageProviderReady(settings))
              => (pc' = "list" /\ caption_generator' = None)
        /\ caption_generator' = None
        /\ pc' # "captions" /\ cap' = NoCap
        /\ \A i \in DOMAIN generated_images' :
              /\ generated_images'[i].path = ExpectedImagePath(settings, i, "png")
              /\ generated_images'[i].path \in DOMAIN files'
              /\ files'[generated_images'[i].path].kind = "media"
        /\ \A p \in CaptionOutputs : p \notin DOMAIN files'

C36_RunGoesOnWithoutCaptions == [][C36_Step]_vars

C36_Witness ==
    /\ StartupCaptionFailure
    /\ pc = "done"
    /\ Len(log) = 2 /\ log[1].outcome = "recorded" /\ log[2].outcome = "recorded"
    /\ Len(generated_images) = 2
    /\ generated_images[2].path = MkPath("lora", "Aria", "_idx", 2, "png")
    /\ generated_images[2].path \in DOMAIN files
    /\ cap = NoCap

(* Claims about an empty text of the prompt provider *)
\* the text of a prompt: instruction, provider text and reminder concatenated
PromptText(final_prompt) == final_prompt[1] \o final_prompt[2] \o final_prompt[3]

\* the provider call of this step returned a response with empty text
EmptyTextReturned ==
    /\ pc = "prompt"
    /\ ~pg'.response.raises /\ pg'.response.choices > 0 /\ pg'.response.content = ""

\* C37: when the provider call of an item returns an empty text, the prompt
\* returned to the pipeline is the instruction followed by the reminder,
\* which is not empty; the prompt file is written and the generation
\* invocation is started, so the item is not failed at the prompt step.
C37_Step ==
    EmptyTextReturned =>
        /\ ~pg'.generated.raised /\ pg'.generated.returned = ""
        /\ pg'.final_prompt = <<"face_instruction", "", "reminder">>
        /\ PromptText(pg'.final_prompt) # ""
        /\ \E p \in DOMAIN files' :
              /\ p.tag = "_prompt" /\ p.name = item.name
              /\ files'[p] = Content("prompt", idx)
              /\ (p \notin DOMAIN files \/ files[p] # files'[p])
        /\ pc' = "generate" /\ ipc' = "loop"
        /\ uses'.generations = uses.generations + 1
        /\ log' = log

C37_EmptyTextDoesNotStopItem == [][C37_Step]_vars

C37_Witness ==
    /\ pc = "generate" /\ ipc = "returned"
    /\ pg.provider = "grok"
    /\ ~pg.response.raises /\ pg.response.content = ""
    /\ pg.final_prompt = <<"face_instruction", "", "reminder">>
    /\ posts = 1
    /\ item.output_path \in DOMAIN files

(* Claims about the end of an invocation *)
\* C38: the loop test is never reached with the attempts used up, so the
\* 'all attempts failed' error after the loop is never raised: an invocation
\* that has ended returned, or raised, during an attempt numbered 1 to 3.
C38_AfterLoopRaiseUnreachable ==
    /\ ~(ipc = "loop" /\ attempt >= max_error_attempts)
    /\ raised.key # "all_attempts_failed"
    /\ ipc \in {"returned", "raised"} =>
          /\ attempt \in 1..max_error_attempts
          /\ posts = attempt
    /\ ipc = "raised" => (raised # NoExc /\ raised.at \in 1..max_error_attempts)

C38_Witness ==
    /\ ipc = "raised"
    /\ attempt = max_error_attempts /\ posts = max_error_attempts
    /\ raised.type = "RuntimeError" /\ raised.at = max_error_attempts
    /\ Len(waits) = 2

====
